---- MODULE Spec2Model ----
(***************************************************************************)
(* Verification model of parts of idaes-pse:                               *)
(*   - the FTPx state definition (define_state) as exercised by            *)
(*     state_definitions/tests/test_FTPx.py,                               *)
(*   - idaes.core.util.testing.initialization_tester,                      *)
(*   - DMF property-package indexing as exercised by                       *)
(*     dmf/tests/test_propindex.py,                                        *)
(*   - the generic property package as exercised by test_nonvap_PR.py,     *)
(*   - the 0D HeatExchanger as exercised by test_heat_exchanger.py,        *)
(*   - the test state and reaction blocks of idaes.core.util.testing.      *)
(* Each part has its own specification (SpecFTPx, SpecInit, SpecDMF,       *)
(* SpecGeneric, SpecHX, SpecSBlock, SpecSwitches) over the shared variable *)
(* tuple; a part leaves the others' variables alone.                       *)
(***************************************************************************)
EXTENDS Integers, Sequences, FiniteSets, TLC

VARIABLES
    frame,        \* FTPx test fixture: the dummy parameter/state block configuration
    props,        \* FTPx: the state block frame.props[1] (attributes, variables, constraints)
    ftpx_done,    \* FTPx: outcome of each test method of the class ("notrun" before it ran)
    fixed,        \* tester: set of fixed variables of the model m
    active,       \* tester: set of activated constraints of the model m
    comps,        \* tester: names of the components attached to m.fs.unit
    orig_fixed_vars, orig_act_consts,   \* tester locals (testing.py:102-103)
    fin_fixed_vars, fin_act_consts,     \* tester locals (testing.py:110-111)
    dof,          \* tester argument: expected degrees of freedom
    pc,           \* tester position
    outcome,      \* tester: "running", "returned", "AssertionError" or "InitError"
    resources,    \* DMF: sequence of resources in the workspace, in insertion order
    calls,        \* DMF: sequence of default_version arguments indexed so far
    gconfig,      \* generic package: the configuration given to GenericParameterBlock
    gparams,      \* generic package: model.params, the parameter block
    gprops,       \* generic package: model.props[1], the state block
    gtest,        \* generic package: outcome of each test method
    hx_default,   \* heat exchanger: the default= argument of HeatExchanger(...)
    unit,         \* heat exchanger: m.fs.unit
    hx_test,      \* heat exchanger: outcome of the construction and of each test method
    tparams,      \* test blocks: the switches of the test parameter blocks
    sblock,       \* test blocks: the elements of the indexed TestStateBlock
    trace,        \* test blocks: the initialize and release_state calls made so far
    ret           \* test blocks: the latest method call and what it returned or raised

vars == <<frame, props, ftpx_done, fixed, active, comps, orig_fixed_vars,
          orig_act_consts, fin_fixed_vars, fin_act_consts, dof, pc, outcome,
          resources, calls, gconfig, gparams, gprops, gtest, hx_default, unit,
          hx_test, tparams, sblock, trace, ret>>

ftpxVars == <<frame, props, ftpx_done>>
initVars == <<fixed, active, comps, orig_fixed_vars, orig_act_consts,
              fin_fixed_vars, fin_act_consts, dof, pc, outcome>>
dmfVars  == <<resources, calls>>
genericVars == <<gconfig, gparams, gprops, gtest>>
hxVars   == <<hx_default, unit, hx_test>>
tbVars   == <<tparams, sblock, trace, ret>>

-----------------------------------------------------------------------------
(* Bounds of the model *)
MaxPhases == 3
MaxComps  == 3

-----------------------------------------------------------------------------
(* Exact rationals stand for the Python floats of the state variables.     *)
RECURSIVE GCD(_, _)
GCD(a, b) == IF b = 0 THEN a ELSE GCD(b, a % b)

Rat(n, d) == LET g == GCD(IF n < 0 THEN -n ELSE n, d)
             IN  [n |-> n \div g, d |-> d \div g]
RatDiv(r, k) == Rat(r.n, r.d * k)
RatMid(lo, hi) == Rat(lo.n * hi.d + hi.n * lo.d, 2 * lo.d * hi.d)
None == [n |-> 0, d |-> 0]          \* Python None for a missing bound

-----------------------------------------------------------------------------
(* Pyomo expressions.  A variable reference names the Var and its index    *)
(* (p = "" and j = 0 where the Var has no such index); an expression is    *)
(* the ordered sequence of its signed product terms, which is what str()   *)
(* of the expression prints and what the tests compare.                    *)
Idx(p, j) == [p |-> p, j |-> j]
Scalar == Idx("", 0)
V(name, p, j) == [v |-> name, p |-> p, j |-> j]
Term(factors) == [sign |-> 1, f |-> factors]
Lin(ref) == <<Term(<<ref>>)>>
Mul(r1, r2) == <<Term(<<r1, r2>>)>>
Neg(e) == [k \in 1..Len(e) |-> [sign |-> -(e[k].sign), f |-> e[k].f]]
Sub(e1, e2) == e1 \o Neg(e2)

-----------------------------------------------------------------------------
(* FTPx test fixtures *)
PhaseNames == <<"a", "b", "c", "d", "e">>

TestBounds == [flow_mol    |-> <<Rat(0, 1), Rat(200, 1)>>,
               temperature |-> <<Rat(290, 1), Rat(400, 1)>>,
               pressure    |-> <<Rat(100000, 1), Rat(500000, 1)>>]

Frame(np, nc, ds, sb) ==
    [phase_list     |-> SubSeq(PhaseNames, 1, np),
     component_list |-> [k \in 1..nc |-> k],
     defined_state  |-> ds,
     state_bounds   |-> sb]

Frames == { Frame(np, nc, ds, sb) :
              np \in 1..MaxPhases, nc \in 1..MaxComps, ds \in BOOLEAN,
              sb \in SUBSET {"flow_mol", "temperature", "pressure"} }

Range(s) == { s[k] : k \in 1..Len(s) }
PhaseIdx(fr) == { Idx(p, 0) : p \in Range(fr.phase_list) }
CompIdx(fr)  == { Idx("", j) : j \in Range(fr.component_list) }
PhaseCompIdx(fr) == { Idx(p, j) : p \in Range(fr.phase_list),
                                  j \in Range(fr.component_list) }

EmptyBlock == [attrs |-> {"config", "params", "dens_mol_phase", "enth_mol_phase"},
               always_flash |-> FALSE,
               vars |-> <<>>,
               cons |-> <<>>,
               methods |-> <<>>]

hasattr(b, name) == name \in b.attrs
-----------------------------------------------------------------------------
(* define_state of state_definitions/FTPx.py: the variables and constraints *)
(* it puts on the state block, as test_FTPx.py observes them.               *)
StateBound(fr, name) ==
    IF name \in fr.state_bounds THEN TestBounds[name] ELSE <<None, None>>

StateInit(fr, name, default) ==
    IF name \in fr.state_bounds
    THEN RatMid(TestBounds[name][1], TestBounds[name][2])
    ELSE default

VarData(val, bnds) == [value |-> val, lb |-> bnds[1], ub |-> bnds[2]]

SumMoleFracComp(fr) ==
    [k \in 1..Len(fr.component_list) |->
        Term(<<V("mole_frac_comp", "", fr.component_list[k])>>)]

SumMoleFracPhase(fr, p) ==
    [k \in 1..Len(fr.component_list) |->
        Term(<<V("mole_frac_phase_comp", p, fr.component_list[k])>>)]

SumFlowPhase(fr) ==
    [k \in 1..Len(fr.phase_list) |->
        Term(<<V("flow_mol_phase", fr.phase_list[k], 0)>>)]

SumFlowPhaseComp(fr, i) ==
    [k \in 1..Len(fr.phase_list) |->
        Term(<<V("flow_mol_phase", fr.phase_list[k], 0),
               V("mole_frac_phase_comp", fr.phase_list[k], i)>>)]

define_state_vars_built(fr) ==
    LET np == Len(fr.phase_list)
        nc == Len(fr.component_list)
        f_init == StateInit(fr, "flow_mol", Rat(1, 1))
        zero_up == <<Rat(0, 1), None>>
    IN  [flow_mol    |-> [i \in {Scalar} |->
                            VarData(f_init, StateBound(fr, "flow_mol"))],
         mole_frac_comp |-> [i \in CompIdx(fr) |-> VarData(Rat(1, nc), zero_up)],
         pressure    |-> [i \in {Scalar} |->
                            VarData(StateInit(fr, "pressure", Rat(101325, 1)),
                                    StateBound(fr, "pressure"))],
         temperature |-> [i \in {Scalar} |->
                            VarData(StateInit(fr, "temperature", Rat(29815, 100)),
                                    StateBound(fr, "temperature"))],
         flow_mol_phase |-> [i \in PhaseIdx(fr) |->
                            VarData(RatDiv(f_init, np), StateBound(fr, "flow_mol"))],
         mole_frac_phase_comp |-> [i \in PhaseCompIdx(fr) |->
                            VarData(Rat(1, nc), zero_up)],
         phase_frac  |-> [i \in PhaseIdx(fr) |-> VarData(Rat(1, np), zero_up)]]

SinglePhaseConstraints(fr) ==
    LET p1 == fr.phase_list[1]
    IN  [total_flow_balance |-> [i \in {Scalar} |->
            Sub(Lin(V("flow_mol", "", 0)), Lin(V("flow_mol_phase", p1, 0)))],
         component_flow_balances |-> [i \in CompIdx(fr) |->
            Sub(Lin(V("mole_frac_comp", "", i.j)),
                Lin(V("mole_frac_phase_comp", p1, i.j)))],
         phase_fraction_constraint |-> [i \in PhaseIdx(fr) |->
            Lin(V("phase_frac", i.p, 0))]]

GeneralComponentFlowBalances(fr) ==
    [i \in CompIdx(fr) |->
        Sub(Mul(V("flow_mol", "", 0), V("mole_frac_comp", "", i.j)),
            SumFlowPhaseComp(fr, i.j))]

GeneralPhaseFraction(fr) ==
    [i \in PhaseIdx(fr) |->
        Sub(Mul(V("phase_frac", i.p, 0), V("flow_mol", "", 0)),
            Lin(V("flow_mol_phase", i.p, 0)))]

TwoPhaseConstraints(fr) ==
    [total_flow_balance |-> [i \in {Scalar} |->
        Sub(SumFlowPhase(fr), Lin(V("flow_mol", "", 0)))],
     component_flow_balances |-> GeneralComponentFlowBalances(fr),
     sum_mole_frac |-> [i \in {Scalar} |->
        Sub(SumMoleFracPhase(fr, fr.phase_list[1]),
            SumMoleFracPhase(fr, fr.phase_list[2]))],
     phase_fraction_constraint |-> GeneralPhaseFraction(fr)]

GeneralConstraints(fr) ==
    [component_flow_balances |-> GeneralComponentFlowBalances(fr),
     sum_mole_frac |-> [i \in PhaseIdx(fr) |-> SumMoleFracPhase(fr, i.p)],
     phase_fraction_constraint |-> GeneralPhaseFraction(fr)]

OutletConstraint(fr) ==
    IF fr.defined_state = FALSE
    THEN [sum_mole_frac_out |-> [i \in {Scalar} |-> SumMoleFracComp(fr)]]
    ELSE <<>>

\* the methods define_state attaches to the block, by what each returns
FTPxMethods ==
    [define_state_vars |-> [n \in {"flow_mol", "mole_frac_comp", "temperature",
                                    "pressure"} |-> n],
     get_material_flow_basis |-> "MaterialFlowBasis.molar",
     default_material_balance_type |-> "MaterialBalanceType.componentTotal",
     default_energy_balance_type |-> "EnergyBalanceType.enthalpyTotal"]

define_state(b, fr) ==
    LET vs == define_state_vars_built(fr)
        cs == OutletConstraint(fr) @@
              (IF Len(fr.phase_list) = 1 THEN SinglePhaseConstraints(fr)
               ELSE IF Len(fr.phase_list) = 2 THEN TwoPhaseConstraints(fr)
               ELSE GeneralConstraints(fr))
    IN  [attrs |-> b.attrs \cup {"always_flash"} \cup DOMAIN vs \cup DOMAIN cs,
         always_flash |-> TRUE,
         vars |-> vs,
         cons |-> cs,
         methods |-> FTPxMethods]

\* state_initialization of state_definitions/FTPx.py: the first guess of the
\* phase variables from the state variables' current values: the phase mole
\* fractions equal the total mole fractions and the total flow is split
\* evenly over the phases.
state_initialization(b, fr) ==
    LET np == Len(fr.phase_list)
    IN  [b EXCEPT
           !.vars.mole_frac_phase_comp =
               [i \in DOMAIN @ |->
                   [@[i] EXCEPT !.value = b.vars.mole_frac_comp[Idx("", i.j)].value]],
           !.vars.flow_mol_phase =
               [i \in DOMAIN @ |->
                   [@[i] EXCEPT !.value = RatDiv(b.vars.flow_mol[Scalar].value, np)]]]
-----------------------------------------------------------------------------
(* test_FTPx.py: what the test classes assert of the block.                *)
(* The expected bodies are built by the tests from the block's own Vars.   *)
TestClass(fr) ==
    IF Len(fr.phase_list) = 1 THEN "Test1Phase"
    ELSE IF Len(fr.phase_list) = 2 THEN "Test2Phase" ELSE "Test3Phase"

isConstraint(b, name) == hasattr(b, name) /\ name \in DOMAIN b.cons

\* isinstance(c, Constraint); len(c) == n; for i in c: i in the index list and
\* str(c[i].body) == str(expected[i])
AssertConstraint(b, name, n, expected) ==
    /\ isConstraint(b, name)
    /\ Cardinality(DOMAIN b.cons[name]) = n
    /\ \A i \in DOMAIN b.cons[name] :
          i \in DOMAIN expected /\ b.cons[name][i] = expected[i]

Expected_sum_mole_frac_out(fr) ==
    [i \in {Scalar} |->
        [k \in 1..Len(fr.component_list) |->
            Term(<<V("mole_frac_comp", "", fr.component_list[k])>>)]]

\* Faulty variant of AssertOutlet: the outlet constraint expected whatever defined_state is.
AssertOutlet_always_expected(b, fr) ==
    AssertConstraint(b, "sum_mole_frac_out", 1, Expected_sum_mole_frac_out(fr))

AssertOutlet(b, fr) ==
    IF fr.defined_state = FALSE
    THEN AssertConstraint(b, "sum_mole_frac_out", 1, Expected_sum_mole_frac_out(fr))
    ELSE ~ hasattr(b, "sum_mole_frac_out")

Expected1_total_flow_balance(fr) ==
    [i \in {Scalar} |->
        Sub(Lin(V("flow_mol", "", 0)),
            Lin(V("flow_mol_phase", fr.phase_list[1], 0)))]

\* Faulty variant of Expected1_component_flow_balances: the flow-weighted balance of
\* the multi-phase formulation.
Expected1_component_flow_balances_weighted(fr) ==
    [i \in CompIdx(fr) |->
        Sub(Mul(V("flow_mol", "", 0), V("mole_frac_comp", "", i.j)),
            Mul(V("flow_mol_phase", fr.phase_list[1], 0),
                V("mole_frac_phase_comp", fr.phase_list[1], i.j)))]

Expected1_component_flow_balances(fr) ==
    [i \in CompIdx(fr) |->
        Sub(Lin(V("mole_frac_comp", "", i.j)),
            Lin(V("mole_frac_phase_comp", fr.phase_list[1], i.j)))]

Expected1_phase_fraction_constraint(fr) ==
    [i \in PhaseIdx(fr) |-> Lin(V("phase_frac", i.p, 0))]

Test1Phase_constraints(b, fr) ==
    /\ AssertConstraint(b, "total_flow_balance", 1, Expected1_total_flow_balance(fr))
    /\ AssertConstraint(b, "component_flow_balances", Len(fr.component_list),
                        Expected1_component_flow_balances(fr))
    /\ AssertOutlet(b, fr)
    /\ AssertConstraint(b, "phase_fraction_constraint", 1,
                        Expected1_phase_fraction_constraint(fr))

Expected2_total_flow_balance(fr) ==
    [i \in {Scalar} |->
        Sub([k \in 1..Len(fr.phase_list) |->
                Term(<<V("flow_mol_phase", fr.phase_list[k], 0)>>)],
            Lin(V("flow_mol", "", 0)))]

Expected_component_flow_balances(fr) ==
    [i \in CompIdx(fr) |->
        Sub(Mul(V("flow_mol", "", 0), V("mole_frac_comp", "", i.j)),
            [k \in 1..Len(fr.phase_list) |->
                Term(<<V("flow_mol_phase", fr.phase_list[k], 0),
                       V("mole_frac_phase_comp", fr.phase_list[k], i.j)>>)])]

\* Faulty variant of Expected2_sum_mole_frac: one sum per phase instead of the difference.
Expected2_sum_mole_frac_per_phase(fr) ==
    [i \in PhaseIdx(fr) |->
        [k \in 1..Len(fr.component_list) |->
            Term(<<V("mole_frac_phase_comp", i.p, fr.component_list[k])>>)]]

Expected2_sum_mole_frac(fr) ==
    [i \in {Scalar} |->
        Sub([k \in 1..Len(fr.component_list) |->
                Term(<<V("mole_frac_phase_comp", fr.phase_list[1],
                         fr.component_list[k])>>)],
            [k \in 1..Len(fr.component_list) |->
                Term(<<V("mole_frac_phase_comp", fr.phase_list[2],
                         fr.component_list[k])>>)])]

Expected_phase_fraction_constraint(fr) ==
    [i \in PhaseIdx(fr) |->
        Sub(Mul(V("phase_frac", i.p, 0), V("flow_mol", "", 0)),
            Lin(V("flow_mol_phase", i.p, 0)))]

Test2Phase_constraints(b, fr) ==
    /\ AssertConstraint(b, "total_flow_balance", 1, Expected2_total_flow_balance(fr))
    /\ AssertConstraint(b, "component_flow_balances", Len(fr.component_list),
                        Expected_component_flow_balances(fr))
    /\ AssertConstraint(b, "sum_mole_frac", 1, Expected2_sum_mole_frac(fr))
    /\ AssertOutlet(b, fr)
    /\ AssertConstraint(b, "phase_fraction_constraint", 2,
                        Expected_phase_fraction_constraint(fr))

\* Faulty variant of Expected3_sum_mole_frac: the two-phase difference, unindexed.
Expected3_sum_mole_frac_difference(fr) ==
    [i \in {Scalar} |->
        Sub([k \in 1..Len(fr.component_list) |->
                Term(<<V("mole_frac_phase_comp", fr.phase_list[1],
                         fr.component_list[k])>>)],
            [k \in 1..Len(fr.component_list) |->
                Term(<<V("mole_frac_phase_comp", fr.phase_list[2],
                         fr.component_list[k])>>)])]

Expected3_sum_mole_frac(fr) ==
    [i \in PhaseIdx(fr) |->
        [k \in 1..Len(fr.component_list) |->
            Term(<<V("mole_frac_phase_comp", i.p, fr.component_list[k])>>)]]

Test3Phase_constraints(b, fr) ==
    /\ AssertConstraint(b, "component_flow_balances", Len(fr.component_list),
                        Expected_component_flow_balances(fr))
    /\ AssertConstraint(b, "sum_mole_frac", Len(fr.phase_list),
                        Expected3_sum_mole_frac(fr))
    /\ AssertOutlet(b, fr)
    /\ AssertConstraint(b, "phase_fraction_constraint", Len(fr.phase_list),
                        Expected_phase_fraction_constraint(fr))

Verdict(ok) == IF ok THEN "passed" ELSE "failed"

\* Faulty variant of test_always_flash: the assertion without the define_state call.
test_always_flash_without_define_state ==
    /\ ftpx_done.always_flash = "notrun"
    /\ props' = props
    /\ ftpx_done' = [ftpx_done EXCEPT !.always_flash =
            Verdict(hasattr(props', "always_flash") /\ props'.always_flash)]
    /\ UNCHANGED <<frame, initVars, dmfVars, genericVars, hxVars, tbVars>>

\* test_always_flash: the first test of each class; it is the one that calls
\* define_state on the class-scoped fixture.
test_always_flash ==
    /\ ftpx_done.always_flash = "notrun"
    /\ props' = define_state(props, frame)
    /\ ftpx_done' = [ftpx_done EXCEPT !.always_flash =
            Verdict(hasattr(props', "always_flash") /\ props'.always_flash)]
    /\ UNCHANGED <<frame, initVars, dmfVars, genericVars, hxVars, tbVars>>

test_constraints ==
    /\ ftpx_done.always_flash # "notrun"
    /\ ftpx_done.constraints = "notrun"
    /\ ftpx_done' = [ftpx_done EXCEPT !.constraints =
            Verdict(CASE TestClass(frame) = "Test1Phase" ->
                            Test1Phase_constraints(props, frame)
                      [] TestClass(frame) = "Test2Phase" ->
                            Test2Phase_constraints(props, frame)
                      [] OTHER -> Test3Phase_constraints(props, frame))]
    /\ UNCHANGED <<frame, props, initVars, dmfVars, genericVars, hxVars, tbVars>>

isVar(b, name) == hasattr(b, name) /\ name \in DOMAIN b.vars

\* Faulty variant of ExpectedStateValue: the lower bound expected as the initial value.
ExpectedStateValue_lower_bound(fr, name) ==
    IF name \in fr.state_bounds
    THEN CASE name = "flow_mol" -> Rat(0, 1)
           [] name = "pressure" -> Rat(100000, 1)
           [] name = "temperature" -> Rat(290, 1)
    ELSE CASE name = "flow_mol" -> Rat(1, 1)
           [] name = "pressure" -> Rat(101325, 1)
           [] name = "temperature" -> Rat(29815, 100)

\* test_vars: the value the WithBounds classes expect of a bounded state
\* variable (100, 3e5, 345) and the NoBounds classes of an unbounded one
\* (1, 101325, 298.15)
ExpectedStateValue(fr, name) ==
    IF name \in fr.state_bounds
    THEN CASE name = "flow_mol" -> Rat(100, 1)
           [] name = "pressure" -> Rat(300000, 1)
           [] name = "temperature" -> Rat(345, 1)
    ELSE CASE name = "flow_mol" -> Rat(1, 1)
           [] name = "pressure" -> Rat(101325, 1)
           [] name = "temperature" -> Rat(29815, 100)

\* test_vars: lb and ub are asserted where the fixture configures the pair
ExpectedStateBounds(name) ==
    CASE name = "flow_mol" -> <<Rat(0, 1), Rat(200, 1)>>
      [] name = "pressure" -> <<Rat(100000, 1), Rat(500000, 1)>>
      [] name = "temperature" -> <<Rat(290, 1), Rat(400, 1)>>

AssertStateVar(b, fr, name) ==
    /\ isVar(b, name)
    /\ b.vars[name][Scalar].value = ExpectedStateValue(fr, name)
    /\ name \in fr.state_bounds =>
          /\ b.vars[name][Scalar].lb = ExpectedStateBounds(name)[1]
          /\ b.vars[name][Scalar].ub = ExpectedStateBounds(name)[2]

\* isinstance(v, Var); len(v) == n; for i in v: i in the index set and
\* v[i].value == val
AssertIndexedVar(b, name, n, index, val) ==
    /\ isVar(b, name)
    /\ Cardinality(DOMAIN b.vars[name]) = n
    /\ \A i \in DOMAIN b.vars[name] :
          i \in index /\ b.vars[name][i].value = val

\* Faulty variant of ExpectedPhaseFlow: every phase expected to carry the whole flow.
ExpectedPhaseFlow_unsplit(fr) == ExpectedStateValue(fr, "flow_mol")

\* test_vars: flow_mol_phase[i].value, written 1, 0.5, 1/3, 100, 50, 100/3
ExpectedPhaseFlow(fr) ==
    RatDiv(ExpectedStateValue(fr, "flow_mol"), Len(fr.phase_list))

AssertPhaseVars(b, fr) ==
    LET np == Len(fr.phase_list)
        nc == Len(fr.component_list)
    IN  /\ AssertIndexedVar(b, "mole_frac_comp", nc, CompIdx(fr), Rat(1, nc))
        /\ AssertIndexedVar(b, "flow_mol_phase", np, PhaseIdx(fr), ExpectedPhaseFlow(fr))
        /\ "flow_mol" \in fr.state_bounds =>
              \A i \in DOMAIN b.vars.flow_mol_phase :
                  /\ b.vars.flow_mol_phase[i].lb = ExpectedStateBounds("flow_mol")[1]
                  /\ b.vars.flow_mol_phase[i].ub = ExpectedStateBounds("flow_mol")[2]
        /\ AssertIndexedVar(b, "phase_frac", np, PhaseIdx(fr), Rat(1, np))
        /\ AssertIndexedVar(b, "mole_frac_phase_comp", np * nc, PhaseCompIdx(fr),
                            Rat(1, nc))

test_vars ==
    /\ ftpx_done.always_flash # "notrun"
    /\ ftpx_done.vars = "notrun"
    /\ ftpx_done.state_initialization = "notrun"
    /\ ftpx_done' = [ftpx_done EXCEPT !.vars =
            Verdict(/\ \A name \in {"flow_mol", "pressure", "temperature"} :
                          AssertStateVar(props, frame, name)
                    /\ AssertPhaseVars(props, frame))]
    /\ UNCHANGED <<frame, props, initVars, dmfVars, genericVars, hxVars, tbVars>>

\* the values test_state_initialization gives the state variables
InitFlow == Rat(100, 1)
InitMoleFrac == Rat(4, 5)

\* test_state_initialization, lines 156-161 of the one-phase class and the
\* same lines of the others: 50 and 0.8 expected in every class
AssertStateInitialization(b, fr) ==
    \A p \in Range(fr.phase_list) :
        /\ b.vars.flow_mol_phase[Idx(p, 0)].value = Rat(50, 1)
        /\ \A j \in Range(fr.component_list) :
              b.vars.mole_frac_phase_comp[Idx(p, j)].value = Rat(4, 5)

\* test_state_initialization: the function defined inside test_constraints in
\* every class; its body sets the state, calls state_initialization and
\* compares.
test_state_initialization ==
    /\ ftpx_done.constraints # "notrun"
    /\ ftpx_done.state_initialization = "notrun"
    /\ LET set == [props EXCEPT
                     !.vars.flow_mol = [i \in DOMAIN @ |->
                                          [@[i] EXCEPT !.value = InitFlow]],
                     !.vars.mole_frac_comp = [i \in DOMAIN @ |->
                                          [@[i] EXCEPT !.value = InitMoleFrac]]]
       IN  props' = state_initialization(set, frame)
    /\ ftpx_done' = [ftpx_done EXCEPT !.state_initialization =
            Verdict(AssertStateInitialization(props', frame))]
    /\ UNCHANGED <<frame, initVars, dmfVars, genericVars, hxVars, tbVars>>

\* Faulty variant of AssertDefineStateVars: the phase flows counted as state variables.
AssertDefineStateVars_with_phase_flow(b) ==
    b.methods.define_state_vars =
        [n \in {"flow_mol", "mole_frac_comp", "temperature", "pressure",
                "flow_mol_phase"} |-> n]

\* TestCommon.test_define_state_vars: the dict of name -> the block's Var
AssertDefineStateVars(b) ==
    /\ b.methods.define_state_vars =
          [n \in {"flow_mol", "mole_frac_comp", "temperature", "pressure"} |-> n]
    /\ \A n \in DOMAIN b.methods.define_state_vars : isVar(b, n)

\* TestCommon: test_default_material_balance_type,
\* test_default_energy_balance_type, test_get_material_flow_basis and
\* test_define_state_vars on the block its fixture built with define_state
test_common ==
    /\ ftpx_done.always_flash # "notrun"
    /\ ftpx_done.common = "notrun"
    /\ ftpx_done' = [ftpx_done EXCEPT !.common =
            Verdict(/\ props.methods.default_material_balance_type =
                          "MaterialBalanceType.componentTotal"
                    /\ props.methods.default_energy_balance_type =
                          "EnergyBalanceType.enthalpyTotal"
                    /\ props.methods.get_material_flow_basis =
                          "MaterialFlowBasis.molar"
                    /\ AssertDefineStateVars(props))]
    /\ UNCHANGED <<frame, props, initVars, dmfVars, genericVars, hxVars, tbVars>>
-----------------------------------------------------------------------------
(* idaes.core.util.testing.initialization_tester                           *)
NumModelVars == 2

\* The model m handed to the tester: variables x1..xN and constraints c1..cN
\* on m.fs.unit; odd constraints are equalities over two variables, even ones
\* inequalities over one.
VarName(k) == "x" \o ToString(k)
ConName(k) == "c" \o ToString(k)
ModelVars == { VarName(k) : k \in 1..NumModelVars }
ModelConstraints ==
    { [name |-> ConName(k),
       eq   |-> (k % 2 = 1),
       vars |-> IF k % 2 = 1
                THEN {VarName(k), VarName((k % NumModelVars) + 1)}
                ELSE {VarName(k)}] : k \in 1..NumModelVars }
ModelCons == { c.name : c \in ModelConstraints }
ModelComps == ModelVars \cup ModelCons

\* testing.py:85-95
DummyVar == "__dummy_var"
DummyConstraints ==
    { [name |-> "__dummy_equality",         eq |-> TRUE,  vars |-> {DummyVar}],
      [name |-> "__dummy_inequality",       eq |-> FALSE, vars |-> {DummyVar}],
      [name |-> "__dummy_equality_idx[1]",  eq |-> TRUE,  vars |-> {DummyVar}],
      [name |-> "__dummy_inequality_idx[1]", eq |-> FALSE, vars |-> {DummyVar}] }
DummyCons == { c.name : c \in DummyConstraints }
DummyComps == {"__dummy_var", "__dummy_equality", "__dummy_inequality",
               "__dummy_equality_idx", "__dummy_inequality_idx"}

\* The constraint data objects a component holds
DataOf(comp) ==
    IF comp = "__dummy_equality_idx" THEN {"__dummy_equality_idx[1]"}
    ELSE IF comp = "__dummy_inequality_idx" THEN {"__dummy_inequality_idx[1]"}
    ELSE {comp}

\* idaes.core.util.model_statistics: the fixed variables, the activated
\* constraints and the degrees of freedom (unfixed variables in activated
\* equalities minus activated equalities) of the components on the model.
ConstraintsOn(cs) ==
    { c \in ModelConstraints \cup DummyConstraints :
        \E comp \in cs : c.name \in DataOf(comp) }
fixed_variables_set(fx, cs) == fx \cap cs
activated_constraints_set(act, cs) ==
    { c.name : c \in { d \in ConstraintsOn(cs) : d.name \in act } }
degrees_of_freedom(fx, act, cs) ==
    LET eqs == { c \in ConstraintsOn(cs) : c.name \in act /\ c.eq }
        vs  == (UNION { c.vars : c \in eqs }) \cap cs
    IN  Cardinality(vs \ fx) - Cardinality(eqs)

\* Faulty variant of DeactivatedDummies: the last deactivate() call is missing.
DeactivatedDummies_without_last == DummyCons \ {"__dummy_inequality_idx[1]"}

\* testing.py:97-100: the constraints the tester deactivates after adding them
DeactivatedDummies == DummyCons

\* testing.py:82-103: add the dummy components (a new Constraint is active,
\* a new Var unfixed), deactivate the dummy constraints, record the sets.
tester_setup ==
    /\ pc = "call"
    /\ comps' = comps \cup DummyComps
    /\ active' = (active \cup DummyCons) \ DeactivatedDummies
    /\ fixed' = fixed \ {DummyVar}
    /\ orig_fixed_vars' = fixed_variables_set(fixed', comps')
    /\ orig_act_consts' = activated_constraints_set(active', comps')
    /\ pc' = "L105"
    /\ UNCHANGED <<fin_fixed_vars, fin_act_consts, dof, outcome, ftpxVars, dmfVars, genericVars, hxVars, tbVars>>

\* testing.py:105: m.fs.unit.initialize(**init_kwargs).  The unit's initialize
\* is whatever the model under test provides: it may fix and unfix variables
\* and activate and deactivate constraints of the model, the dummies included,
\* and leave them in any state when it returns.
initialize_returns ==
    /\ pc = "L105"
    /\ outcome = "running"
    /\ \E fx \in SUBSET (ModelVars \cup {DummyVar}),
          act \in SUBSET (ModelCons \cup DummyCons) :
          /\ fixed' = fx
          /\ active' = act
    /\ pc' = "L107"
    /\ UNCHANGED <<comps, orig_fixed_vars, orig_act_consts, fin_fixed_vars,
                   fin_act_consts, dof, outcome, ftpxVars, dmfVars, genericVars, hxVars, tbVars>>

\* testing.py:105: initialize raises; the exception leaves the tester.
initialize_raises ==
    /\ pc = "L105"
    /\ outcome = "running"
    /\ \E fx \in SUBSET (ModelVars \cup {DummyVar}),
          act \in SUBSET (ModelCons \cup DummyCons) :
          /\ fixed' = fx
          /\ active' = act
    /\ outcome' = "InitError"
    /\ UNCHANGED <<comps, orig_fixed_vars, orig_act_consts, fin_fixed_vars,
                   fin_act_consts, dof, pc, ftpxVars, dmfVars, genericVars, hxVars, tbVars>>

\* Faulty variant of AssertDof: the dof argument is ignored, the default 0 is expected.
AssertDof_default_only(model_dof, expected) == model_dof = 0

\* testing.py:108
AssertDof(model_dof, expected) == model_dof = expected

\* Faulty variant of AssertSameLength: the length comparison is missing.
AssertSameLength_missing(fin, orig) == TRUE

\* testing.py:113-114
AssertSameLength(fin, orig) == Cardinality(fin) = Cardinality(orig)

\* Faulty variant of AssertAllIn: the membership loops are missing.
AssertAllIn_skipped(fin, orig) == TRUE

\* testing.py:116-119
AssertAllIn(fin, orig) == \A c \in fin : c \in orig

\* Faulty variant of DeletedComponents: the last del_component call is missing.
DeletedComponents_without_var == DummyComps \ {"__dummy_var"}

\* testing.py:127-131: the components the tester deletes before it returns
DeletedComponents ==
    {"__dummy_inequality", "__dummy_equality", "__dummy_inequality_idx",
     "__dummy_equality_idx", "__dummy_var"}

\* testing.py:107-131: the assertions in order; the first that fails raises
\* AssertionError and leaves the function at its line, otherwise the dummy
\* components are deleted and the tester returns.
FailingLine(fx, act, cs, expected) ==
    LET fin_f == fixed_variables_set(fx, cs)
        fin_a == activated_constraints_set(act, cs)
    IN  IF ~ AssertDof(degrees_of_freedom(fx, act, cs), expected) THEN "L108"
        ELSE IF ~ AssertSameLength(fin_a, orig_act_consts) THEN "L113"
        ELSE IF ~ AssertSameLength(fin_f, orig_fixed_vars) THEN "L114"
        ELSE IF ~ AssertAllIn(fin_a, orig_act_consts) THEN "L117"
        ELSE IF ~ AssertAllIn(fin_f, orig_fixed_vars) THEN "L119"
        ELSE IF "__dummy_equality" \in act THEN "L122"
        ELSE IF "__dummy_inequality" \in act THEN "L123"
        ELSE IF "__dummy_equality_idx[1]" \in act THEN "L124"
        ELSE IF "__dummy_inequality_idx[1]" \in act THEN "L125"
        ELSE "return"

tester_check ==
    /\ pc = "L107"
    /\ outcome = "running"
    /\ LET line == FailingLine(fixed, active, comps, dof)
       IN  /\ pc' = line
           /\ outcome' = IF line = "return" THEN "returned" ELSE "AssertionError"
           /\ IF line = "L108"
              THEN UNCHANGED <<fin_fixed_vars, fin_act_consts>>
              ELSE /\ fin_fixed_vars' = fixed_variables_set(fixed, comps)
                   /\ fin_act_consts' = activated_constraints_set(active, comps)
           /\ IF line = "return"
              THEN /\ comps' = comps \ DeletedComponents
                   /\ fixed' = fixed \ {DummyVar}
                   /\ active' = active \ DummyCons
              ELSE UNCHANGED <<comps, fixed, active>>
    /\ UNCHANGED <<orig_fixed_vars, orig_act_consts, dof, ftpxVars, dmfVars, genericVars, hxVars, tbVars>>

\* testing.py:57: the tester is called again on the model it returned from;
\* its locals are those of the new call
tester_called_again ==
    /\ pc = "return"
    /\ outcome = "returned"
    /\ pc' = "call"
    /\ outcome' = "running"
    /\ orig_fixed_vars' = {}
    /\ orig_act_consts' = {}
    /\ fin_fixed_vars' = {}
    /\ fin_act_consts' = {}
    /\ UNCHANGED <<fixed, active, comps, dof, ftpxVars, dmfVars, genericVars, hxVars, tbVars>>
-----------------------------------------------------------------------------
(* DMF property-package indexing (idaes.dmf.propindex, idaes.dmf.resource),  *)
(* as test_propindex.py drives and observes it.                              *)
NumVersions == 3      \* versions 1..NumVersions, ordered as 1.0.0 < 6.6.6 < 9.9.0
MaxCalls == 4

Versions == 1..NumVersions

PR_VERSION == "version"
RR_SUBJ == "subject"
RR_OBJ == "object"

Relation(role, ident) == [role |-> role, predicate |-> PR_VERSION, identifier |-> ident]

NewId(rs) == Len(rs) + 1

\* the resources already indexing the same class with the same version
Duplicates(rs, v) == { k \in 1..Len(rs) : rs[k].version = v }

\* the position of the resource with the highest version
Highest(rs) == CHOOSE k \in 1..Len(rs) : \A l \in 1..Len(rs) : rs[l].version <= rs[k].version

\* resource.create_relation(Triple(subject, version, object)): one entry in
\* the relations of each end
create_relation(rs, subj, obj) ==
    [k \in 1..Len(rs) |->
        IF k = subj
        THEN [rs[k] EXCEPT !.relations = Append(@, Relation(RR_SUBJ, rs[obj].id))]
        ELSE IF k = obj
        THEN [rs[k] EXCEPT !.relations = Append(@, Relation(RR_OBJ, rs[subj].id))]
        ELSE rs[k]]

\* DMFVisitor.visit_metadata for the one class the expression matches
visit_metadata(rs, v) ==
    IF Duplicates(rs, v) # {}
    THEN rs
    ELSE LET added == Append(rs, [id |-> NewId(rs), version |-> v, relations |-> <<>>])
         IN  IF rs = <<>> THEN added
             ELSE create_relation(added, Len(added), Highest(rs))

index_property_metadata ==
    /\ Len(calls) < MaxCalls
    /\ \E v \in Versions :
          /\ resources' = visit_metadata(resources, v)
          /\ calls' = Append(calls, v)
    /\ UNCHANGED <<ftpxVars, initVars, genericVars, hxVars, tbVars>>


\* test_propindex.py:77: v1, v2, v3 = "1.0.0", "6.6.6", "9.9.0", by rank
V1 == 1
V2 == 2
V3 == 3

\* dmf.find({}) returns the resources in no promised order
RECURSIVE Perms(_)
Perms(rs) ==
    IF rs = <<>> THEN {<<>>}
    ELSE UNION { { <<rs[k]>> \o t :
                   t \in Perms([l \in 1..(Len(rs) - 1) |->
                                   IF l < k THEN rs[l] ELSE rs[l + 1]]) } :
                 k \in 1..Len(rs) }
find_all(rs) == Perms(rs)

\* Faulty variant of AssertTwoVersionsLinked: first and second taken the other way round.
AssertTwoVersionsLinked_swapped(rlist) ==
    /\ Len(rlist) = 2
    /\ LET first  == IF rlist[1].version = V2 THEN 1 ELSE 2
           second == IF rlist[1].version = V2 THEN 2 ELSE 1
       IN  /\ Len(rlist[first].relations) = 1
           /\ Len(rlist[second].relations) = 1
           /\ rlist[first].relations[1].role = RR_OBJ
           /\ rlist[first].relations[1].predicate = PR_VERSION
           /\ rlist[first].relations[1].identifier = rlist[second].id
           /\ rlist[second].relations[1].role = RR_SUBJ
           /\ rlist[second].relations[1].predicate = PR_VERSION
           /\ rlist[second].relations[1].identifier = rlist[first].id

\* test_propindex.py:96-125: the assertions after indexing v1 and then v2
AssertTwoVersionsLinked(rlist) ==
    /\ Len(rlist) = 2
    /\ LET first  == IF rlist[1].version = V2 THEN 2 ELSE 1
           second == IF rlist[1].version = V2 THEN 1 ELSE 2
       IN  /\ Len(rlist[first].relations) = 1
           /\ Len(rlist[second].relations) = 1
           /\ rlist[first].relations[1].role = RR_OBJ
           /\ rlist[first].relations[1].predicate = PR_VERSION
           /\ rlist[first].relations[1].identifier = rlist[second].id
           /\ rlist[second].relations[1].role = RR_SUBJ
           /\ rlist[second].relations[1].predicate = PR_VERSION
           /\ rlist[second].relations[1].identifier = rlist[first].id

\* Faulty variant of AssertStillTwo: a resource expected for every call.
AssertStillTwo_one_per_call(rlist) == Len(rlist) = 3

\* test_propindex.py:136-137: after indexing v2 again there are still two
AssertStillTwo(rlist) == Len(rlist) = 2

\* test_propindex.py:148-149: after indexing v3 there are three
AssertThree(rlist) == Len(rlist) = 3

\* test_propindex.py:152-153: positions of rlist sorted by version
SortedIndexes(rlist) ==
    [i \in 1..Len(rlist) |->
        CHOOSE k \in 1..Len(rlist) :
            Cardinality({ l \in 1..Len(rlist) :
                            rlist[l].version < rlist[k].version }) = i - 1]

\* Faulty variant of AssertChain: the newest expected to point at the oldest.
AssertChain_newest_to_oldest(rlist) ==
    LET indexes == SortedIndexes(rlist)
        rel == [i \in 1..3 |-> rlist[indexes[i]].relations]
    IN  /\ Len(rel[1]) = 1
        /\ rel[1][1].identifier = rlist[indexes[3]].id
        /\ rel[1][1].role = RR_OBJ
        /\ Len(rel[2]) = 2
        /\ \A j \in 1..2 :
              IF rel[2][j].role = RR_SUBJ
              THEN rel[2][j].identifier = rlist[indexes[1]].id
              ELSE /\ rel[2][j].identifier = rlist[indexes[3]].id
                   /\ rel[2][j].role = RR_OBJ
        /\ Len(rel[3]) = 1
        /\ rel[3][1].identifier = rlist[indexes[1]].id
        /\ rel[3][1].role = RR_SUBJ

\* test_propindex.py:150-175: the assertions "0 <--> 1 <--> 2" after v3
AssertChain(rlist) ==
    LET indexes == SortedIndexes(rlist)
        rel == [i \in 1..3 |-> rlist[indexes[i]].relations]
    IN  /\ Len(rel[1]) = 1
        /\ rel[1][1].identifier = rlist[indexes[2]].id
        /\ rel[1][1].role = RR_OBJ
        /\ Len(rel[2]) = 2
        /\ \A j \in 1..2 :
              IF rel[2][j].role = RR_SUBJ
              THEN rel[2][j].identifier = rlist[indexes[1]].id
              ELSE /\ rel[2][j].identifier = rlist[indexes[3]].id
                   /\ rel[2][j].role = RR_OBJ
        /\ Len(rel[3]) = 1
        /\ rel[3][1].identifier = rlist[indexes[2]].id
        /\ rel[3][1].role = RR_SUBJ

-----------------------------------------------------------------------------
(* GenericParameterBlock and the generic FTPx state block, as               *)
(* generic/tests/test_nonvap_PR.py configures and observes them.            *)
ComponentNames == <<"benzene", "toluene", "l_only">>
PhaseList == <<"Liq", "Vap">>

\* the type of each configured phase: LiquidPhase, VaporPhase
PhaseTypeOf(p) == IF p = "Liq" THEN "liquidPhase" ELSE "vaporPhase"

\* valid_phase_types of a component: not given, or a set of phase types
Unrestricted == [given |-> FALSE, types |-> {}]
Restricted(types) == [given |-> TRUE, types |-> types]
ValidPhaseTypes == {Unrestricted} \cup
                   { Restricted(t) : t \in (SUBSET {"liquidPhase", "vaporPhase"}) \ {{}} }

\* test_nonvap_PR.py:57-144, the parts the parameter block's sets depend on
configuration ==
    [components |-> [j \in Range(ComponentNames) |->
                        IF j = "l_only" THEN Restricted({"liquidPhase"})
                        ELSE Unrestricted],
     phases_in_equilibrium |-> << <<"Vap", "Liq">> >>]

Configurations ==
    { [components |-> c, phases_in_equilibrium |-> pie] :
        c \in [Range(ComponentNames) -> ValidPhaseTypes],
        pie \in { <<>>, << <<"Vap", "Liq">> >> } }

\* Component._is_phase_valid
is_phase_valid(cfg, j, p) ==
    (~ cfg.components[j].given) \/ PhaseTypeOf(p) \in cfg.components[j].types

phase_component_set(cfg) ==
    { i \in { Idx(p, j) : p \in Range(PhaseList), j \in Range(ComponentNames) } :
        is_phase_valid(cfg, i.j, i.p) }

\* the components in both phases of the pair, in component order
InEquilibrium(cfg, pp) ==
    SelectSeq(ComponentNames,
              LAMBDA j : /\ Idx(pp[1], j) \in phase_component_set(cfg)
                         /\ Idx(pp[2], j) \in phase_component_set(cfg))

PEName(k) == "PE" \o ToString(k)

\* phase_equilibrium_list, for the at most one pair the configurations list:
\* PE<counter> -> {component: (phase1, phase2)}
phase_equilibrium_list(cfg) ==
    IF cfg.phases_in_equilibrium = <<>> THEN <<>>
    ELSE LET pp == cfg.phases_in_equilibrium[1]
             js == InEquilibrium(cfg, pp)
         IN  [i \in { PEName(k) : k \in 1..Len(js) } |->
                 [component |-> js[CHOOSE k \in 1..Len(js) : PEName(k) = i],
                  phases |-> pp]]

NoParams == [built |-> FALSE, phase_list |-> <<>>, component_list |-> <<>>,
             phase_component_set |-> {}, phase_equilibrium_idx |-> {},
             phase_equilibrium_list |-> <<>>]

GenericParameterBlock(cfg) ==
    [built |-> TRUE,
     phase_list |-> PhaseList,
     component_list |-> ComponentNames,
     phase_component_set |-> phase_component_set(cfg),
     phase_equilibrium_idx |-> DOMAIN phase_equilibrium_list(cfg),
     phase_equilibrium_list |-> phase_equilibrium_list(cfg)]

\* model.params = GenericParameterBlock(default=configuration)
params_build ==
    /\ ~ gparams.built
    /\ gparams' = GenericParameterBlock(gconfig)
    /\ UNCHANGED <<gconfig, gprops, gtest, ftpxVars, initVars, dmfVars, hxVars, tbVars>>

\* The generic FTPx state block with defined_state True: its variables and
\* its equality constraints with the variables each contains.  The
\* equilibrium temperature and the bubble and dew point variables each come
\* with one defining equality and are left out.
GVar(name, p, j) == [v |-> name, p |-> p, j |-> j]
GCon(name, p, j, vs) == [c |-> name, p |-> p, j |-> j, vars |-> vs]

StateBlockVars(pb) ==
    {GVar("flow_mol", "", ""), GVar("temperature", "", ""), GVar("pressure", "", "")}
    \cup { GVar("mole_frac_comp", "", j) : j \in Range(pb.component_list) }
    \cup { GVar("flow_mol_phase", p, "") : p \in Range(pb.phase_list) }
    \cup { GVar("phase_frac", p, "") : p \in Range(pb.phase_list) }
    \cup { GVar("mole_frac_phase_comp", i.p, i.j) : i \in pb.phase_component_set }

StateBlockConstraints(pb) ==
    LET flows == { GVar("flow_mol_phase", p, "") : p \in Range(pb.phase_list) }
        fracs(p) == { GVar("mole_frac_phase_comp", i.p, i.j) :
                        i \in { k \in pb.phase_component_set : k.p = p } }
    IN  {GCon("total_flow_balance", "", "", {GVar("flow_mol", "", "")} \cup flows)}
        \cup { GCon("component_flow_balances", "", j,
                    {GVar("flow_mol", "", ""), GVar("mole_frac_comp", "", j)}
                    \cup UNION { {GVar("flow_mol_phase", i.p, ""),
                                  GVar("mole_frac_phase_comp", i.p, i.j)} :
                                 i \in { k \in pb.phase_component_set : k.j = j } }) :
               j \in Range(pb.component_list) }
        \cup {GCon("sum_mole_frac", "", "",
                   UNION { fracs(p) : p \in Range(pb.phase_list) })}
        \cup { GCon("phase_fraction_constraint", p, "",
                    {GVar("phase_frac", p, ""), GVar("flow_mol", "", ""),
                     GVar("flow_mol_phase", p, "")}) :
               p \in Range(pb.phase_list) }
        \cup { GCon("equilibrium_constraint", i, pb.phase_equilibrium_list[i].component,
                    {GVar("temperature", "", ""), GVar("pressure", "", "")}
                    \cup fracs(pb.phase_equilibrium_list[i].phases[1])
                    \cup fracs(pb.phase_equilibrium_list[i].phases[2])) :
               i \in pb.phase_equilibrium_idx }

NoProps == [built |-> FALSE, vars |-> {}, cons |-> {}, fixed |-> {}]

\* model.props = model.params.build_state_block([1], default={"defined_state": True})
build_state_block ==
    /\ gparams.built
    /\ ~ gprops.built
    /\ gprops' = [built |-> TRUE, vars |-> StateBlockVars(gparams),
                  cons |-> StateBlockConstraints(gparams), fixed |-> {}]
    /\ UNCHANGED <<gconfig, gparams, gtest, ftpxVars, initVars, dmfVars, hxVars, tbVars>>

\* model_statistics.degrees_of_freedom of a block all of whose constraints
\* are active equalities
block_degrees_of_freedom(b) ==
    Cardinality((UNION { c.vars : c \in b.cons }) \ b.fixed) - Cardinality(b.cons)

\* Faulty variant of AssertPhaseComponentSet: the liquid-only component expected in
\* the vapour phase as well.
AssertPhaseComponentSet_all_pairs(pb) ==
    /\ Cardinality(pb.phase_component_set) = 6
    /\ \A i \in pb.phase_component_set :
          i \in {Idx("Liq", "benzene"), Idx("Liq", "toluene"),
                 Idx("Vap", "benzene"), Idx("Vap", "toluene"),
                 Idx("Liq", "l_only"), Idx("Vap", "l_only")}

\* test_nonvap_PR.py:165-170
AssertPhaseComponentSet(pb) ==
    /\ Cardinality(pb.phase_component_set) = 5
    /\ \A i \in pb.phase_component_set :
          i \in {Idx("Liq", "benzene"), Idx("Liq", "toluene"),
                 Idx("Vap", "benzene"), Idx("Vap", "toluene"),
                 Idx("Liq", "l_only")}

\* Faulty variant of AssertPhaseEquilibrium: an index expected for every component.
AssertPhaseEquilibrium_every_component(pb) ==
    /\ Cardinality(pb.phase_equilibrium_idx) = 3
    /\ \A i \in pb.phase_equilibrium_idx : i \in {"PE1", "PE2", "PE3"}
    /\ pb.phase_equilibrium_list =
          [i \in {"PE1", "PE2", "PE3"} |->
              [component |-> IF i = "PE1" THEN "benzene"
                             ELSE IF i = "PE2" THEN "toluene" ELSE "l_only",
               phases |-> <<"Vap", "Liq">>]]

\* test_nonvap_PR.py:182-189
AssertPhaseEquilibrium(pb) ==
    /\ Cardinality(pb.phase_equilibrium_idx) = 2
    /\ \A i \in pb.phase_equilibrium_idx : i \in {"PE1", "PE2"}
    /\ pb.phase_equilibrium_list =
          [i \in {"PE1", "PE2"} |->
              [component |-> IF i = "PE1" THEN "benzene" ELSE "toluene",
               phases |-> <<"Vap", "Liq">>]]

\* TestParamBlock.test_build, on the parameter block of `configuration`
test_build ==
    /\ gparams.built
    /\ gconfig = configuration
    /\ gtest.build = "notrun"
    /\ gtest' = [gtest EXCEPT !.build =
            Verdict(/\ Len(gparams.phase_list) = 2
                    /\ \A i \in Range(gparams.phase_list) : i \in {"Liq", "Vap"}
                    /\ Len(gparams.component_list) = 3
                    /\ \A i \in Range(gparams.component_list) :
                          i \in {"benzene", "toluene", "l_only"}
                    /\ AssertPhaseComponentSet(gparams)
                    /\ AssertPhaseEquilibrium(gparams))]
    /\ UNCHANGED <<gconfig, gparams, gprops, ftpxVars, initVars, dmfVars, hxVars, tbVars>>

\* Faulty variant of FixedState: the liquid-only component's mole fraction left free.
FixedState_without_l_only ==
    {GVar("flow_mol", "", ""), GVar("temperature", "", ""), GVar("pressure", "", ""),
     GVar("mole_frac_comp", "", "benzene"), GVar("mole_frac_comp", "", "toluene")}

\* test_nonvap_PR.py:209-214 and 317-322: the variables test_dof fixes
FixedState ==
    {GVar("flow_mol", "", ""), GVar("temperature", "", ""), GVar("pressure", "", ""),
     GVar("mole_frac_comp", "", "benzene"), GVar("mole_frac_comp", "", "toluene"),
     GVar("mole_frac_comp", "", "l_only")}

\* TestNonVapourisable_Vapour.test_dof and TestNonVapourisable_Liquid.test_dof
generic_test_dof ==
    /\ gprops.built
    /\ gtest.dof = "notrun"
    /\ gprops' = [gprops EXCEPT !.fixed = @ \cup FixedState]
    /\ gtest' = [gtest EXCEPT !.dof = Verdict(block_degrees_of_freedom(gprops') = 0)]
    /\ UNCHANGED <<gconfig, gparams, ftpxVars, initVars, dmfVars, hxVars, tbVars>>

-----------------------------------------------------------------------------
(* The 0D HeatExchanger, as unit_models/tests/test_heat_exchanger.py         *)
(* constructs and observes it.                                               *)
Unset == "<unset>"          \* the key is not in the default= dict
SideNames == {Unset, "shell", "tube", "hot", "cold"}
Packages == {"<none>", "BTX", "IAPWS", "Saponification"}
FlowPatterns == {"cocurrent", "countercurrent", "crossflow"}

\* the default= dict: the two side names, the property package given for
\* both sides under their names, the flow pattern, and whether a key that
\* is no declared option is present
Defaults ==
    [hot_side_name : SideNames, cold_side_name : SideNames, package : Packages,
     flow_pattern : FlowPatterns, bad_option : BOOLEAN]

\* test_heat_exchanger.py:74: HeatExchanger(default={"cold_side_name": "shell"})
SameNameDefault_tube_as_cold ==
    [hot_side_name |-> Unset, cold_side_name |-> "tube", package |-> "<none>",
     flow_pattern |-> "countercurrent", bad_option |-> FALSE]

SameNameDefault ==
    [hot_side_name |-> Unset, cold_side_name |-> "shell", package |-> "<none>",
     flow_pattern |-> "countercurrent", bad_option |-> FALSE]

\* Faulty variant of BadOptionDefault: the key is a declared option.
BadOptionDefault_declared_key ==
    [hot_side_name |-> Unset, cold_side_name |-> Unset, package |-> "<none>",
     flow_pattern |-> "countercurrent", bad_option |-> FALSE]

\* test_heat_exchanger.py:66: HeatExchanger(default={"I'm a bad option": "hot"})
BadOptionDefault ==
    [hot_side_name |-> Unset, cold_side_name |-> Unset, package |-> "<none>",
     flow_pattern |-> "countercurrent", bad_option |-> TRUE]

\* config.hot_side_name and config.cold_side_name with their default values
HotSideName(d) == IF d.hot_side_name = Unset THEN "shell" ELSE d.hot_side_name
ColdSideName(d) == IF d.cold_side_name = Unset THEN "tube" ELSE d.cold_side_name

HXVar(port, name, j) == [port |-> port, v |-> name, j |-> j]

\* the state variables of one inlet port, as the test_dof methods fix them
InletStateVars(pkg, port) ==
    CASE pkg = "BTX" ->
            {HXVar(port, "flow_mol", ""), HXVar(port, "temperature", ""),
             HXVar(port, "pressure", ""), HXVar(port, "mole_frac_comp", "benzene"),
             HXVar(port, "mole_frac_comp", "toluene")}
      [] pkg = "IAPWS" ->
            {HXVar(port, "flow_mol", ""), HXVar(port, "enth_mol", ""),
             HXVar(port, "pressure", "")}
      [] pkg = "Saponification" ->
            {HXVar(port, "flow_vol", ""), HXVar(port, "temperature", ""),
             HXVar(port, "pressure", "")}
            \cup { HXVar(port, "conc_mol_comp", j) :
                     j \in {"H2O", "NaOH", "EthylAcetate", "SodiumAcetate", "Ethanol"} }
      [] OTHER -> {}

\* number_variables and number_total_constraints of the model as test_build
\* states them (50 and 38, 18 and 10, 39 and 20 with the crossflow factor)
NumberVariables(pkg, pattern) ==
    (CASE pkg = "BTX" -> 50 [] pkg = "IAPWS" -> 18 [] pkg = "Saponification" -> 38
       [] OTHER -> 0)
    + (IF pattern = "crossflow" THEN 1 ELSE 0)
NumberTotalConstraints(pkg) ==
    CASE pkg = "BTX" -> 38 [] pkg = "IAPWS" -> 10 [] pkg = "Saponification" -> 20
      [] OTHER -> 0

UnitVars(pattern) ==
    { HXVar("", n, "") : n \in {"area", "overall_heat_transfer_coefficient",
                               "heat_duty", "delta_temperature_in",
                               "delta_temperature_out"} }
    \cup (IF pattern = "crossflow" THEN {HXVar("", "crossflow_factor", "")} ELSE {})

\* the constraints the unit itself declares
UnitConstraints == {"unit_heat_balance", "heat_transfer_equation"}

\* the attribute names under which the four ports can be reached: the
\* names inlet_1 .. outlet_2 and the names made of the side names
Ports(d) ==
    [a \in {"inlet_1", "inlet_2", "outlet_1", "outlet_2",
            HotSideName(d) \o "_inlet", ColdSideName(d) \o "_inlet",
            HotSideName(d) \o "_outlet", ColdSideName(d) \o "_outlet"} |->
        CASE a \in {"inlet_1", HotSideName(d) \o "_inlet"} -> "inlet_1"
          [] a \in {"inlet_2", ColdSideName(d) \o "_inlet"} -> "inlet_2"
          [] a \in {"outlet_1", HotSideName(d) \o "_outlet"} -> "outlet_1"
          [] OTHER -> "outlet_2"]

NoUnit == [built |-> FALSE, flow_pattern |-> "", package |-> "", vars |-> {},
           ncons |-> 0, fixed |-> {}, cons |-> {}, ports |-> <<>>, unused |-> {}]

\* the unit HeatExchanger builds: the inlet ports' state variables, the
\* unit's own variables, the remaining variables (outlet states and
\* properties), the number of equality constraints and the constraints the
\* unit declares by name; every variable is in some constraint
BuiltUnit(d) ==
    LET named == InletStateVars(d.package, "inlet_1")
                 \cup InletStateVars(d.package, "inlet_2")
                 \cup UnitVars(d.flow_pattern)
        rest  == NumberVariables(d.package, d.flow_pattern) - Cardinality(named)
    IN  [built |-> TRUE, flow_pattern |-> d.flow_pattern, package |-> d.package,
         vars |-> named \cup { HXVar("internal", "v", ToString(k)) : k \in 1..rest },
         ncons |-> NumberTotalConstraints(d.package),
         fixed |-> {},
         cons |-> UnitConstraints,
         ports |-> Ports(d),
         unused |-> {}]

\* HeatExchangerData: the checks of the configuration, in order
ConstructionError(d) ==
    IF HotSideName(d) = ColdSideName(d) THEN "NameError"
    ELSE IF d.bad_option THEN "KeyError"
    ELSE IF d.package = "<none>" THEN "ConfigurationError"
    ELSE "none"

\* m.fs.unit = HeatExchanger(default=...)
HeatExchanger ==
    /\ hx_test.raised = "notrun"
    /\ hx_test' = [hx_test EXCEPT !.raised = ConstructionError(hx_default)]
    /\ unit' = IF ConstructionError(hx_default) = "none"
               THEN BuiltUnit(hx_default) ELSE NoUnit
    /\ UNCHANGED <<hx_default, ftpxVars, initVars, dmfVars, genericVars, tbVars>>

\* model_statistics.degrees_of_freedom of the flowsheet holding the unit
unit_degrees_of_freedom(u, fx) == Cardinality(u.vars \ fx) - u.ncons

\* Faulty variant of TestDofFixes: the crossflow class without its last fix() call.
TestDofFixes_without_crossflow_factor(u) ==
    InletStateVars(u.package, "inlet_1") \cup InletStateVars(u.package, "inlet_2")
    \cup {HXVar("", "area", ""), HXVar("", "overall_heat_transfer_coefficient", "")}

\* test_heat_exchanger.py:275-288, 559-568, 711-731: the variables test_dof fixes
TestDofFixes(u) ==
    InletStateVars(u.package, "inlet_1") \cup InletStateVars(u.package, "inlet_2")
    \cup {HXVar("", "area", ""), HXVar("", "overall_heat_transfer_coefficient", "")}
    \cup (IF u.flow_pattern = "crossflow" THEN {HXVar("", "crossflow_factor", "")}
          ELSE {})

\* Test*.test_dof
hx_test_dof ==
    /\ unit.built
    /\ hx_test.dof = "notrun"
    /\ unit' = [unit EXCEPT !.fixed = @ \cup TestDofFixes(unit)]
    /\ hx_test' = [hx_test EXCEPT !.dof =
            Verdict(unit_degrees_of_freedom(unit', unit'.fixed) = 0)]
    /\ UNCHANGED <<hx_default, ftpxVars, initVars, dmfVars, genericVars, tbVars>>

\* the variable data of the port reached as attribute a of the unit
PortVars(u, a) == InletStateVars(u.package, u.ports[a])

\* test_heat_exchanger.py:231-257, 375-401: the names by which a class
\* reaches the ports: inlet_1 .. outlet_2 where the side names are left at
\* their defaults, hot_inlet .. cold_outlet where they are given
TestPortNames(d) ==
    IF d.hot_side_name = Unset /\ d.cold_side_name = Unset
    THEN [hot_inlet |-> "inlet_1", cold_inlet |-> "inlet_2",
          hot_outlet |-> "outlet_1", cold_outlet |-> "outlet_2"]
    ELSE [hot_inlet |-> HotSideName(d) \o "_inlet",
          cold_inlet |-> ColdSideName(d) \o "_inlet",
          hot_outlet |-> HotSideName(d) \o "_outlet",
          cold_outlet |-> ColdSideName(d) \o "_outlet"]

\* test_heat_exchanger.py:232-236, 521-524, 690-695: the members of a port
ExpectedPortMembers(pkg) ==
    CASE pkg = "BTX" -> {"flow_mol", "mole_frac_comp", "temperature", "pressure"}
      [] pkg = "IAPWS" -> {"flow_mol", "enth_mol", "pressure"}
      [] pkg = "Saponification" ->
            {"flow_vol", "conc_mol_comp", "temperature", "pressure"}
      [] OTHER -> {}

\* Faulty variant of ExpectedCrossflowFactor: the factor is expected for every pattern.
ExpectedCrossflowFactor_every_pattern(pattern) == TRUE

\* test_heat_exchanger.py:261, 405, 545, 697: "not hasattr" in the cocurrent
\* and countercurrent classes, "isinstance(..., Var)" in the crossflow class
ExpectedCrossflowFactor(pattern) == pattern = "crossflow"

\* test_heat_exchanger.py:231-271, 375-415, 521-555, 690-703
AssertBuild(u, d) ==
    /\ \A k \in DOMAIN TestPortNames(d) :
          LET a == TestPortNames(d)[k]
          IN  /\ a \in DOMAIN u.ports
              /\ Cardinality({ x.v : x \in PortVars(u, a) })
                    = Cardinality(ExpectedPortMembers(u.package))
              /\ \A n \in ExpectedPortMembers(u.package) :
                    \E x \in PortVars(u, a) : x.v = n
    /\ \A n \in {"overall_heat_transfer_coefficient", "area", "heat_duty",
                  "delta_temperature_in", "delta_temperature_out"} :
          HXVar("", n, "") \in u.vars
    /\ (HXVar("", "crossflow_factor", "") \in u.vars)
          <=> ExpectedCrossflowFactor(u.flow_pattern)
    /\ "unit_heat_balance" \in u.cons
    /\ "heat_transfer_equation" \in u.cons
    /\ Cardinality(u.vars) = NumberVariables(u.package, u.flow_pattern)
    /\ u.ncons = NumberTotalConstraints(u.package)
    /\ Cardinality(u.unused) = 0

\* Test*.test_build
hx_test_build ==
    /\ unit.built
    /\ hx_test.build = "notrun"
    /\ hx_test' = [hx_test EXCEPT !.build = Verdict(AssertBuild(unit, hx_default))]
    /\ UNCHANGED <<unit, hx_default, ftpxVars, initVars, dmfVars, genericVars, tbVars>>

\* Faulty variant of AltNameDofFixes: the cold inlet is left free.
AltNameDofFixes_hot_inlet_only(u, d) ==
    PortVars(u, HotSideName(d) \o "_inlet")
    \cup {HXVar("", "area", ""), HXVar("", "overall_heat_transfer_coefficient", "")}
    \cup (IF u.flow_pattern = "crossflow" THEN {HXVar("", "crossflow_factor", "")}
          ELSE {})

\* test_heat_exchanger.py:574-583, 419-432: the variables fixed through the
\* ports named after the sides (shell_inlet and tube_inlet, hot_inlet and
\* cold_inlet)
AltNameDofFixes(u, d) ==
    PortVars(u, HotSideName(d) \o "_inlet")
    \cup PortVars(u, ColdSideName(d) \o "_inlet")
    \cup {HXVar("", "area", ""), HXVar("", "overall_heat_transfer_coefficient", "")}
    \cup (IF u.flow_pattern = "crossflow" THEN {HXVar("", "crossflow_factor", "")}
          ELSE {})

\* TestIAPWS_countercurrent.test_dof_alt_name1, TestBTX_cocurrent_alt_name.test_dof
hx_test_dof_alt_name ==
    /\ unit.built
    /\ hx_test.dof_alt = "notrun"
    /\ unit' = [unit EXCEPT !.fixed = @ \cup AltNameDofFixes(unit, hx_default)]
    /\ hx_test' = [hx_test EXCEPT !.dof_alt =
            Verdict(unit_degrees_of_freedom(unit', unit'.fixed) = 0)]
    /\ UNCHANGED <<hx_default, ftpxVars, initVars, dmfVars, genericVars, tbVars>>

-----------------------------------------------------------------------------
(* The test property and reaction blocks of idaes.core.util.testing          *)
NumBlocks == 2
MaxBlockCalls == 4
MaxSwitch == 3

\* testing.py:155-157, 287-288: the switches as the two build methods set them
BuiltSwitches ==
    [basis_switch |-> 1, default_balance_switch |-> 1, reaction_basis_switch |-> 1]

\* testing.py:171-175
SBlockBase_initialize(blk, hold_state) ==
    [k \in DOMAIN blk |->
        [assigned |-> TRUE, init_test |-> TRUE, hold_state |-> hold_state]]

\* Faulty variant of SBlockBase_release_state: the state is released for good.
SBlockBase_release_state_clears(blk, flags) ==
    [k \in DOMAIN blk |-> [blk[k] EXCEPT !.hold_state = FALSE]]

\* testing.py:177-179
SBlockBase_release_state(blk, flags) ==
    [k \in DOMAIN blk |-> [blk[k] EXCEPT !.hold_state = ~ blk[k].hold_state]]

\* blk.initialize(hold_state=h); the other arguments are not used
sblock_initialize ==
    /\ Len(trace) < MaxBlockCalls
    /\ \E h \in BOOLEAN :
          /\ sblock' = SBlockBase_initialize(sblock, h)
          /\ trace' = Append(trace, [op |-> "initialize", hold_state |-> h,
                                     flags |-> ""])
    /\ UNCHANGED <<tparams, ret, ftpxVars, initVars, dmfVars, genericVars, hxVars>>

\* blk.release_state(flags), called on a block that was initialized
sblock_release_state ==
    /\ Len(trace) < MaxBlockCalls
    /\ \A k \in DOMAIN sblock : sblock[k].assigned
    /\ \E flags \in {"None", "flags"} :
          /\ sblock' = SBlockBase_release_state(sblock, flags)
          /\ trace' = Append(trace, [op |-> "release_state", hold_state |-> FALSE,
                                     flags |-> flags])
    /\ UNCHANGED <<tparams, ret, ftpxVars, initVars, dmfVars, genericVars, hxVars>>

\* Faulty variant of get_material_flow_terms: mass units unless the switch is 1.
get_material_flow_terms_mass_unless_molar(params, p, j) ==
    IF params.basis_switch = 1 THEN "mol/s" ELSE "kg/s"

\* testing.py:210-215: the units of the returned term
get_material_flow_terms(params, p, j) ==
    IF params.basis_switch = 2 THEN "kg/s" ELSE "mol/s"

\* testing.py:217-222: the units of the returned term
get_material_density_terms(params, p, j) ==
    IF params.basis_switch = 2 THEN "kg/m^3" ELSE "mol/m^3"

\* testing.py:233-239
get_material_flow_basis(params) ==
    IF params.basis_switch = 1 THEN "MaterialFlowBasis.molar"
    ELSE IF params.basis_switch = 2 THEN "MaterialFlowBasis.mass"
    ELSE "MaterialFlowBasis.other"

\* testing.py:328-334
get_reaction_rate_basis(params) ==
    IF params.reaction_basis_switch = 1 THEN "MaterialFlowBasis.molar"
    ELSE IF params.reaction_basis_switch = 2 THEN "MaterialFlowBasis.mass"
    ELSE "MaterialFlowBasis.other"

\* Faulty variant of default_material_balance_type: the switch is not consulted.
default_material_balance_type_any_switch(params) ==
    [raised |-> "none", value |-> "MaterialBalanceType.componentPhase"]

\* testing.py:241-245
default_material_balance_type(params) ==
    IF params.default_balance_switch = 1
    THEN [raised |-> "none", value |-> "MaterialBalanceType.componentPhase"]
    ELSE [raised |-> "NotImplementedError", value |-> "<nothing>"]

\* testing.py:247-251
default_energy_balance_type(params) ==
    IF params.default_balance_switch = 1
    THEN [raised |-> "none", value |-> "EnergyBalanceType.enthalpyTotal"]
    ELSE [raised |-> "NotImplementedError", value |-> "<nothing>"]

\* a test assigns one of the switches (m.fs.pp.basis_switch = 2, ...); the
\* value of an earlier call is gone
set_switch ==
    /\ \E name \in DOMAIN tparams, v \in 0..MaxSwitch :
          tparams' = [tparams EXCEPT ![name] = v]
    /\ ret' = [call |-> "none", p |-> "", j |-> "", raised |-> "none", value |-> ""]
    /\ UNCHANGED <<sblock, trace, ftpxVars, initVars, dmfVars, genericVars, hxVars>>

\* a call of one of the methods that take a phase and a component
call_material_terms ==
    /\ \E p \in {"p1", "p2"}, j \in {"c1", "c2"} :
          \/ ret' = [call |-> "get_material_flow_terms", p |-> p, j |-> j,
                     raised |-> "none",
                     value |-> get_material_flow_terms(tparams, p, j)]
          \/ ret' = [call |-> "get_material_density_terms", p |-> p, j |-> j,
                     raised |-> "none",
                     value |-> get_material_density_terms(tparams, p, j)]
    /\ UNCHANGED <<tparams, sblock, trace, ftpxVars, initVars, dmfVars, genericVars, hxVars>>

\* a call of get_material_flow_basis or of get_reaction_rate_basis
call_basis ==
    /\ \/ ret' = [call |-> "get_material_flow_basis", p |-> "", j |-> "",
                  raised |-> "none", value |-> get_material_flow_basis(tparams)]
       \/ ret' = [call |-> "get_reaction_rate_basis", p |-> "", j |-> "",
                  raised |-> "none", value |-> get_reaction_rate_basis(tparams)]
    /\ UNCHANGED <<tparams, sblock, trace, ftpxVars, initVars, dmfVars, genericVars, hxVars>>

\* a call of default_material_balance_type or of default_energy_balance_type
call_default_balance_type ==
    /\ \/ LET r == default_material_balance_type(tparams)
          IN  ret' = [call |-> "default_material_balance_type", p |-> "", j |-> "",
                      raised |-> r.raised, value |-> r.value]
       \/ LET r == default_energy_balance_type(tparams)
          IN  ret' = [call |-> "default_energy_balance_type", p |-> "", j |-> "",
                      raised |-> r.raised, value |-> r.value]
    /\ UNCHANGED <<tparams, sblock, trace, ftpxVars, initVars, dmfVars, genericVars, hxVars>>

-----------------------------------------------------------------------------
(* Specifications *)
DofArgs == {0, 1}

Init ==
    /\ frame \in Frames
    /\ props = EmptyBlock
    /\ ftpx_done = [always_flash |-> "notrun", constraints |-> "notrun",
                    vars |-> "notrun", state_initialization |-> "notrun",
                    common |-> "notrun"]
    /\ fixed \in SUBSET ModelVars
    /\ active \in SUBSET ModelCons
    /\ comps = ModelComps
    /\ orig_fixed_vars = {}
    /\ orig_act_consts = {}
    /\ fin_fixed_vars = {}
    /\ fin_act_consts = {}
    /\ dof \in DofArgs
    /\ pc = "call"
    /\ outcome = "running"
    /\ resources = <<>>
    /\ calls = <<>>
    /\ gconfig \in Configurations
    /\ gparams = NoParams
    /\ gprops = NoProps
    /\ gtest = [build |-> "notrun", dof |-> "notrun"]
    /\ hx_default \in Defaults
    /\ unit = NoUnit
    /\ hx_test = [raised |-> "notrun", dof |-> "notrun", build |-> "notrun",
                  dof_alt |-> "notrun"]
    /\ tparams = BuiltSwitches
    /\ sblock = [k \in 1..NumBlocks |->
                    [assigned |-> FALSE, init_test |-> FALSE, hold_state |-> FALSE]]
    /\ trace = <<>>
    /\ ret = [call |-> "none", p |-> "", j |-> "", raised |-> "none", value |-> ""]

\* one fixed state of the parts a specification does not exercise
IdleFTPx == frame = Frame(1, 1, FALSE, {})
IdleInit == fixed = {} /\ active = {} /\ dof = 0
IdleGeneric == gconfig = configuration
IdleHX == hx_default = SameNameDefault

InitFTPx == IdleInit /\ IdleGeneric /\ IdleHX /\ Init
NextFTPx ==
    \/ test_always_flash
    \/ test_vars
    \/ test_constraints
    \/ test_state_initialization
    \/ test_common
SpecFTPx == InitFTPx /\ [][NextFTPx]_vars

InitInit == IdleFTPx /\ IdleGeneric /\ IdleHX /\ Init
NextInit ==
    \/ tester_setup
    \/ initialize_returns
    \/ initialize_raises
    \/ tester_check
    \/ tester_called_again
SpecInit == InitInit /\ [][NextInit]_vars

InitDMF == IdleFTPx /\ IdleInit /\ IdleGeneric /\ IdleHX /\ Init
NextDMF == index_property_metadata
SpecDMF == InitDMF /\ [][NextDMF]_vars

InitGeneric == IdleFTPx /\ IdleInit /\ IdleHX /\ Init
NextGeneric == params_build \/ test_build \/ build_state_block \/ generic_test_dof
SpecGeneric == InitGeneric /\ [][NextGeneric]_vars

InitHX == IdleFTPx /\ IdleInit /\ IdleGeneric /\ Init
NextHX == HeatExchanger \/ hx_test_build \/ hx_test_dof \/ hx_test_dof_alt_name
SpecHX == InitHX /\ [][NextHX]_vars

InitSBlock == IdleFTPx /\ IdleInit /\ IdleGeneric /\ IdleHX /\ Init
NextSBlock == sblock_initialize \/ sblock_release_state
SpecSBlock == InitSBlock /\ [][NextSBlock]_vars

InitSwitches == IdleFTPx /\ IdleInit /\ IdleGeneric /\ IdleHX /\ Init
NextSwitches ==
    \/ set_switch
    \/ call_material_terms
    \/ call_basis
    \/ call_default_balance_type
SpecSwitches == InitSwitches /\ [][NextSwitches]_vars

Next == NextFTPx \/ NextInit \/ NextDMF \/ NextGeneric \/ NextHX
        \/ NextSBlock \/ NextSwitches
Spec == Init /\ [][Next]_vars

-----------------------------------------------------------------------------
(* Claims *)
Built == ftpx_done.always_flash # "notrun"
NumPhases == Len(frame.phase_list)
AllBounds == {"flow_mol", "temperature", "pressure"}
Plus(ref) == [sign |-> 1, f |-> <<ref>>]
Minus(ref) == [sign |-> -1, f |-> <<ref>>]
PlusProd(r1, r2) == [sign |-> 1, f |-> <<r1, r2>>]
MinusProd(r1, r2) == [sign |-> -1, f |-> <<r1, r2>>]

\* C1: once define_state has run on the state block, always_flash is set and
\* True, for every number of phases, either value of defined_state and any
\* state bounds, and the class's test_always_flash passes.
C1_AlwaysFlash ==
    Built => /\ hasattr(props, "always_flash")
             /\ props.always_flash = TRUE
             /\ ftpx_done.always_flash = "passed"

C1_Witness ==
    /\ Built
    /\ NumPhases = 1 /\ frame.defined_state = FALSE /\ frame.state_bounds = {}
    /\ props.always_flash = TRUE

\* C2: after define_state the block has the constraint sum_mole_frac_out (a
\* single constraint whose body sums mole_frac_comp over all components) if
\* and only if defined_state is False; with defined_state True the attribute
\* does not exist.  Holds for every number of phases.
C2_SumMoleFracOut ==
    Built =>
        /\ hasattr(props, "sum_mole_frac_out") <=> (frame.defined_state = FALSE)
        /\ AssertOutlet(props, frame)
        /\ hasattr(props, "sum_mole_frac_out") =>
              /\ DOMAIN props.cons.sum_mole_frac_out = {Scalar}
              /\ Len(props.cons.sum_mole_frac_out[Scalar]) = Len(frame.component_list)
              /\ \A k \in 1..Len(frame.component_list) :
                    props.cons.sum_mole_frac_out[Scalar][k] =
                        Plus(V("mole_frac_comp", "", frame.component_list[k]))

C2_Witness ==
    /\ Built
    /\ NumPhases = 3 /\ frame.defined_state = TRUE
    /\ ~ hasattr(props, "sum_mole_frac_out")

\* C3: with exactly one phase p the block holds the single-phase shortcut:
\* total_flow_balance = flow_mol - flow_mol_phase[p]; for each component i
\* component_flow_balances[i] = mole_frac_comp[i] - mole_frac_phase_comp[p, i]
\* with no product term; phase_fraction_constraint[p] = phase_frac[p] alone.
C3_SinglePhaseShortcut ==
    (Built /\ NumPhases = 1) =>
        LET p == frame.phase_list[1]
        IN  /\ Test1Phase_constraints(props, frame)
            /\ DOMAIN props.cons.total_flow_balance = {Scalar}
            /\ props.cons.total_flow_balance[Scalar] =
                  <<Plus(V("flow_mol", "", 0)), Minus(V("flow_mol_phase", p, 0))>>
            /\ DOMAIN props.cons.component_flow_balances = CompIdx(frame)
            /\ \A i \in CompIdx(frame) :
                  props.cons.component_flow_balances[i] =
                      <<Plus(V("mole_frac_comp", "", i.j)),
                        Minus(V("mole_frac_phase_comp", p, i.j))>>
            /\ DOMAIN props.cons.phase_fraction_constraint = {Idx(p, 0)}
            /\ props.cons.phase_fraction_constraint[Idx(p, 0)] =
                  <<Plus(V("phase_frac", p, 0))>>

C3_Witness ==
    /\ Built /\ NumPhases = 1 /\ Len(frame.component_list) = 3
    /\ frame.defined_state = TRUE /\ frame.state_bounds = AllBounds
    /\ ftpx_done.constraints = "passed"

\* C4: with exactly two phases p1, p2 the block holds one total_flow_balance
\* = flow_mol_phase[p1] + flow_mol_phase[p2] - flow_mol; per component i
\* component_flow_balances[i] = flow_mol*mole_frac_comp[i]
\* - flow_mol_phase[p1]*mole_frac_phase_comp[p1, i]
\* - flow_mol_phase[p2]*mole_frac_phase_comp[p2, i]; one unindexed
\* sum_mole_frac = sum_i mole_frac_phase_comp[p1, i]
\* - sum_i mole_frac_phase_comp[p2, i]; and per phase p
\* phase_fraction_constraint[p] = phase_frac[p]*flow_mol - flow_mol_phase[p].
C4_TwoPhase ==
    (Built /\ NumPhases = 2) =>
        LET p1 == frame.phase_list[1]
            p2 == frame.phase_list[2]
            nc == Len(frame.component_list)
        IN  /\ Test2Phase_constraints(props, frame)
            /\ DOMAIN props.cons.total_flow_balance = {Scalar}
            /\ props.cons.total_flow_balance[Scalar] =
                  <<Plus(V("flow_mol_phase", p1, 0)), Plus(V("flow_mol_phase", p2, 0)),
                    Minus(V("flow_mol", "", 0))>>
            /\ DOMAIN props.cons.component_flow_balances = CompIdx(frame)
            /\ \A i \in CompIdx(frame) :
                  props.cons.component_flow_balances[i] =
                      <<PlusProd(V("flow_mol", "", 0), V("mole_frac_comp", "", i.j)),
                        MinusProd(V("flow_mol_phase", p1, 0),
                                  V("mole_frac_phase_comp", p1, i.j)),
                        MinusProd(V("flow_mol_phase", p2, 0),
                                  V("mole_frac_phase_comp", p2, i.j))>>
            /\ DOMAIN props.cons.sum_mole_frac = {Scalar}
            /\ Len(props.cons.sum_mole_frac[Scalar]) = 2 * nc
            /\ \A k \in 1..nc :
                  /\ props.cons.sum_mole_frac[Scalar][k] =
                        Plus(V("mole_frac_phase_comp", p1, frame.component_list[k]))
                  /\ props.cons.sum_mole_frac[Scalar][nc + k] =
                        Minus(V("mole_frac_phase_comp", p2, frame.component_list[k]))
            /\ DOMAIN props.cons.phase_fraction_constraint = {Idx(p1, 0), Idx(p2, 0)}
            /\ \A p \in {p1, p2} :
                  props.cons.phase_fraction_constraint[Idx(p, 0)] =
                      <<PlusProd(V("phase_frac", p, 0), V("flow_mol", "", 0)),
                        Minus(V("flow_mol_phase", p, 0))>>

C4_Witness ==
    /\ Built /\ NumPhases = 2 /\ Len(frame.component_list) = 3
    /\ frame.defined_state = FALSE /\ frame.state_bounds = {}
    /\ ftpx_done.constraints = "passed"

\* C5: with three phases the block holds per component j
\* component_flow_balances[j] = flow_mol*mole_frac_comp[j]
\* - sum_p flow_mol_phase[p]*mole_frac_phase_comp[p, j]; a sum_mole_frac
\* indexed by phase, exactly one per phase, with body
\* sum_i mole_frac_phase_comp[p, i]; and per phase p
\* phase_fraction_constraint[p] = phase_frac[p]*flow_mol - flow_mol_phase[p].
C5_ThreePhase ==
    (Built /\ NumPhases = 3) =>
        LET nc == Len(frame.component_list)
        IN  /\ Test3Phase_constraints(props, frame)
            /\ DOMAIN props.cons.component_flow_balances = CompIdx(frame)
            /\ \A i \in CompIdx(frame) :
                  /\ Len(props.cons.component_flow_balances[i]) = 4
                  /\ props.cons.component_flow_balances[i][1] =
                        PlusProd(V("flow_mol", "", 0), V("mole_frac_comp", "", i.j))
                  /\ \A k \in 1..3 :
                        props.cons.component_flow_balances[i][k + 1] =
                            MinusProd(V("flow_mol_phase", frame.phase_list[k], 0),
                                      V("mole_frac_phase_comp", frame.phase_list[k], i.j))
            /\ DOMAIN props.cons.sum_mole_frac = PhaseIdx(frame)
            /\ Cardinality(DOMAIN props.cons.sum_mole_frac) = 3
            /\ \A q \in PhaseIdx(frame) :
                  /\ Len(props.cons.sum_mole_frac[q]) = nc
                  /\ \A k \in 1..nc :
                        props.cons.sum_mole_frac[q][k] =
                            Plus(V("mole_frac_phase_comp", q.p, frame.component_list[k]))
            /\ DOMAIN props.cons.phase_fraction_constraint = PhaseIdx(frame)
            /\ \A q \in PhaseIdx(frame) :
                  props.cons.phase_fraction_constraint[q] =
                      <<PlusProd(V("phase_frac", q.p, 0), V("flow_mol", "", 0)),
                        Minus(V("flow_mol_phase", q.p, 0))>>

C5_Witness ==
    /\ Built /\ NumPhases = 3 /\ Len(frame.component_list) = 3
    /\ frame.defined_state = TRUE /\ frame.state_bounds = AllBounds
    /\ ftpx_done.constraints = "passed"

Checked == pc \notin {"call", "L105", "L107"}

C7_DofAsExpected ==
    /\ outcome = "returned" => degrees_of_freedom(fixed, active, comps) = dof
    /\ Checked =>
          ((degrees_of_freedom(fixed, active, comps) # dof)
              <=> (pc = "L108" /\ outcome = "AssertionError"))

C7_Witness ==
    /\ outcome = "returned"
    /\ dof = 1
    /\ degrees_of_freedom(fixed, active, comps) = 1

\* C8: the four dummy constraints are on the unit and inactive when initialize
\* is called; whenever the tester returns they were all still inactive after
\* initialize; if initialize left any of them active the tester ends with
\* AssertionError.
C8_DummiesStayInactive ==
    /\ (pc = "L105" /\ outcome = "running") =>
          /\ DummyComps \subseteq comps
          /\ active \cap DummyCons = {}
    /\ outcome = "returned" => fin_act_consts \cap DummyCons = {}
    /\ (Checked /\ active \cap DummyCons # {}) => outcome = "AssertionError"

C8_Witness ==
    /\ outcome = "AssertionError"
    /\ pc # "L108"
    /\ active \cap DummyCons = {"__dummy_inequality"}
    /\ active \ DummyCons = orig_act_consts
    /\ fixed = orig_fixed_vars

DistinctVersions == { calls[k] : k \in 1..Len(calls) }

\* C9: indexing a second, different version adds exactly one resource (two in
\* total); whenever the workspace holds two resources, each has exactly one
\* relation, with predicate PR_VERSION: the one indexed second (the newer) is
\* the subject and names the first one's id, the first (the older) is the
\* object and names the second one's id; after indexing v1 then v2 the test's
\* assertions hold for every order find() may return.
C9_TwoVersionsLinked ==
    /\ (Len(calls) = 2 /\ calls[1] # calls[2]) => Len(resources) = 2
    /\ Len(resources) = 2 =>
          /\ resources[1].id # resources[2].id
          /\ Len(resources[1].relations) = 1
          /\ Len(resources[2].relations) = 1
          /\ resources[2].relations[1] = Relation(RR_SUBJ, resources[1].id)
          /\ resources[1].relations[1] = Relation(RR_OBJ, resources[2].id)
    /\ calls = <<V1, V2>> =>
          \A rlist \in find_all(resources) : AssertTwoVersionsLinked(rlist)

C9_Witness ==
    /\ calls = <<V1, V2>>
    /\ Len(resources) = 2
    /\ resources[1].version = V1 /\ resources[2].version = V2
    /\ resources[2].relations = <<Relation(RR_SUBJ, resources[1].id)>>

\* C10: after any sequence of indexing calls there is exactly one resource per
\* distinct version indexed, so indexing a version that is already indexed adds
\* none: after v1, v2, v2 find({}) still returns two resources, after v3 three.
C10_OnePerVersion ==
    /\ Len(resources) = Cardinality(DistinctVersions)
    /\ \A k, l \in 1..Len(resources) :
          resources[k].version = resources[l].version => k = l
    /\ calls = <<V1, V2, V2>> =>
          \A rlist \in find_all(resources) : AssertStillTwo(rlist)
    /\ calls = <<V1, V2, V2, V3>> =>
          \A rlist \in find_all(resources) : AssertThree(rlist)

C10_Witness ==
    /\ calls = <<V1, V2, V2>>
    /\ Len(resources) = 2

\* the workspace holds three resources that were indexed in rising version order
IndexedAscending ==
    /\ Len(resources) = 3
    /\ resources[1].version < resources[2].version
    /\ resources[2].version < resources[3].version

RelationsOf(k) == { resources[k].relations[l] : l \in 1..Len(resources[k].relations) }

\* C11: after three distinct versions were indexed one after another, oldest
\* first, the resources sorted by version form the chain 0 <--> 1 <--> 2: the
\* oldest has exactly one relation, as object, naming the middle one's id; the
\* middle has exactly two, one as subject naming the oldest and one as object
\* naming the newest; the newest has exactly one, as subject, naming the
\* middle; no relation links the oldest and the newest; after v1, v2, v2, v3
\* the test's assertions hold for every order find() may return.
C11_VersionChain ==
    /\ IndexedAscending =>
          /\ Len(resources[1].relations) = 1
          /\ RelationsOf(1) = {Relation(RR_OBJ, resources[2].id)}
          /\ Len(resources[2].relations) = 2
          /\ RelationsOf(2) = {Relation(RR_SUBJ, resources[1].id),
                               Relation(RR_OBJ, resources[3].id)}
          /\ Len(resources[3].relations) = 1
          /\ RelationsOf(3) = {Relation(RR_SUBJ, resources[2].id)}
          /\ \A r \in RelationsOf(1) : r.identifier # resources[3].id
          /\ \A r \in RelationsOf(3) : r.identifier # resources[1].id
          /\ \A rlist \in find_all(resources) : AssertChain(rlist)
    /\ calls = <<V1, V2, V2, V3>> => IndexedAscending

C11_Witness ==
    /\ calls = <<V1, V2, V2, V3>>
    /\ IndexedAscending
    /\ resources[3].version = V3
    /\ Len(resources[2].relations) = 2

Initialized == ftpx_done.state_initialization # "notrun"

\* C12: state_initialization, called on a block whose flow_mol is 100 and
\* whose mole_frac_comp[j] are 0.8, sets flow_mol_phase[p] to 50 for every
\* phase p and mole_frac_phase_comp[p, j] to 0.8 for every phase and
\* component, for the one-, two- and three-phase blocks alike.
C12_FiftyForEveryPhaseCount ==
    Initialized =>
        /\ \A i \in PhaseIdx(frame) : props.vars.flow_mol_phase[i].value = Rat(50, 1)
        /\ \A i \in PhaseCompIdx(frame) :
              props.vars.mole_frac_phase_comp[i].value = Rat(4, 5)
        /\ ftpx_done.state_initialization = "passed"

\* C13: define_state gives flow_mol, temperature and pressure the lower and
\* upper bound of the pair state_bounds configures for it and the midpoint of
\* the pair as value (100 for (0, 200), 345 for (290, 400), 3e5 for
\* (1e5, 5e5)); a variable without a pair has no bounds and the default
\* value 1, 298.15 or 101325; the class's test_vars passes.
C13_StateVarsFromBounds ==
    (Built /\ ~ Initialized) =>
        /\ \A name \in AllBounds :
              /\ isVar(props, name)
              /\ DOMAIN props.vars[name] = {Scalar}
              /\ AssertStateVar(props, frame, name)
              /\ IF name \in frame.state_bounds
                 THEN LET var == props.vars[name][Scalar]
                      IN  /\ var.lb = TestBounds[name][1]
                          /\ var.ub = TestBounds[name][2]
                          /\ 2 * var.value.n * var.lb.d * var.ub.d =
                                var.value.d * (var.lb.n * var.ub.d + var.ub.n * var.lb.d)
                 ELSE /\ props.vars[name][Scalar].lb = None
                      /\ props.vars[name][Scalar].ub = None
        /\ "flow_mol" \in frame.state_bounds =>
              props.vars.flow_mol[Scalar].value = Rat(100, 1)
        /\ "temperature" \in frame.state_bounds =>
              props.vars.temperature[Scalar].value = Rat(345, 1)
        /\ "pressure" \in frame.state_bounds =>
              props.vars.pressure[Scalar].value = Rat(300000, 1)
        /\ "flow_mol" \notin frame.state_bounds =>
              props.vars.flow_mol[Scalar].value = Rat(1, 1)
        /\ "temperature" \notin frame.state_bounds =>
              props.vars.temperature[Scalar].value = Rat(29815, 100)
        /\ "pressure" \notin frame.state_bounds =>
              props.vars.pressure[Scalar].value = Rat(101325, 1)
        /\ ftpx_done.vars \in {"notrun", "passed"}

C13_Witness ==
    /\ ftpx_done.vars = "passed"
    /\ ~ Initialized
    /\ frame.state_bounds = {"flow_mol", "temperature"}
    /\ props.vars.temperature[Scalar] =
          [value |-> Rat(345, 1), lb |-> Rat(290, 1), ub |-> Rat(400, 1)]
    /\ props.vars.pressure[Scalar] =
          [value |-> Rat(101325, 1), lb |-> None, ub |-> None]

\* C14: define_state splits the initial guess evenly: with N phases and C
\* components flow_mol_phase[p] starts at flow_mol's initial value divided by
\* N with flow_mol's lower and upper bound, phase_frac[p] at 1/N,
\* mole_frac_comp[j] and mole_frac_phase_comp[p, j] at 1/C; flow_mol_phase
\* and phase_frac have exactly one entry per phase, mole_frac_phase_comp one
\* per pair of the phase-component set; the class's test_vars passes.
C14_EvenSplit ==
    (Built /\ ~ Initialized) =>
        LET np == Len(frame.phase_list)
            nc == Len(frame.component_list)
            fm == props.vars.flow_mol[Scalar]
        IN  /\ AssertPhaseVars(props, frame)
            /\ DOMAIN props.vars.flow_mol_phase = PhaseIdx(frame)
            /\ DOMAIN props.vars.phase_frac = PhaseIdx(frame)
            /\ DOMAIN props.vars.mole_frac_phase_comp = PhaseCompIdx(frame)
            /\ DOMAIN props.vars.mole_frac_comp = CompIdx(frame)
            /\ Cardinality(DOMAIN props.vars.flow_mol_phase) = np
            /\ Cardinality(DOMAIN props.vars.phase_frac) = np
            /\ Cardinality(DOMAIN props.vars.mole_frac_phase_comp) = np * nc
            /\ \A i \in PhaseIdx(frame) :
                  /\ props.vars.flow_mol_phase[i].value = RatDiv(fm.value, np)
                  /\ props.vars.flow_mol_phase[i].lb = fm.lb
                  /\ props.vars.flow_mol_phase[i].ub = fm.ub
                  /\ props.vars.phase_frac[i].value = Rat(1, np)
            /\ \A i \in CompIdx(frame) :
                  props.vars.mole_frac_comp[i].value = Rat(1, nc)
            /\ \A i \in PhaseCompIdx(frame) :
                  props.vars.mole_frac_phase_comp[i].value = Rat(1, nc)
            /\ ftpx_done.vars \in {"notrun", "passed"}

C14_Witness ==
    /\ ftpx_done.vars = "passed"
    /\ ~ Initialized
    /\ NumPhases = 3 /\ Len(frame.component_list) = 3
    /\ frame.state_bounds = AllBounds
    /\ props.vars.flow_mol_phase[Idx("c", 0)] =
          [value |-> Rat(100, 3), lb |-> Rat(0, 1), ub |-> Rat(200, 1)]
    /\ props.vars.phase_frac[Idx("a", 0)].value = Rat(1, 3)

\* C15: once define_state has run, define_state_vars returns exactly flow_mol,
\* mole_frac_comp, temperature and pressure (each the block's Var of that
\* name), the block reports a molar material flow basis, the default material
\* balance type componentTotal and the default energy balance type
\* enthalpyTotal, and TestCommon's tests of them pass.
C15_CommonMethods ==
    Built =>
        /\ DOMAIN props.methods.define_state_vars =
              {"flow_mol", "mole_frac_comp", "temperature", "pressure"}
        /\ AssertDefineStateVars(props)
        /\ props.methods.get_material_flow_basis = "MaterialFlowBasis.molar"
        /\ props.methods.default_material_balance_type =
              "MaterialBalanceType.componentTotal"
        /\ props.methods.default_energy_balance_type =
              "EnergyBalanceType.enthalpyTotal"
        /\ ftpx_done.common \in {"notrun", "passed"}

C15_Witness ==
    /\ ftpx_done.common = "passed"
    /\ NumPhases = 2 /\ Len(frame.component_list) = 3
    /\ frame.defined_state = FALSE /\ frame.state_bounds = {}
    /\ Cardinality(DOMAIN props.methods.define_state_vars) = 4

PositionOf(j) == CHOOSE k \in 1..Len(ComponentNames) : ComponentNames[k] = j
BothPhases(j) ==
    /\ Idx("Liq", j) \in gparams.phase_component_set
    /\ Idx("Vap", j) \in gparams.phase_component_set

\* C16: the phase-component set of a built parameter block holds exactly the
\* (phase, component) pairs whose phase type is among the component's
\* valid_phase_types, a component without the option being valid in every
\* phase; for the test's configuration (Liq, Vap; l_only liquid-only) it has
\* 5 pairs, holds (Liq, l_only) and not (Vap, l_only), and test_build's
\* assertions on it hold.
C16_PhaseComponentSet ==
    gparams.built =>
        /\ \A p \in {"Liq", "Vap"}, j \in Range(ComponentNames) :
              Idx(p, j) \in gparams.phase_component_set <=>
                  \/ ~ gconfig.components[j].given
                  \/ PhaseTypeOf(p) \in gconfig.components[j].types
        /\ \A i \in gparams.phase_component_set :
              i.p \in {"Liq", "Vap"} /\ i.j \in Range(ComponentNames)
        /\ \A j \in Range(ComponentNames) :
              ~ gconfig.components[j].given => BothPhases(j)
        /\ gconfig = configuration =>
              /\ Cardinality(gparams.phase_component_set) = 5
              /\ Idx("Liq", "l_only") \in gparams.phase_component_set
              /\ Idx("Vap", "l_only") \notin gparams.phase_component_set
              /\ AssertPhaseComponentSet(gparams)
              /\ gtest.build \in {"notrun", "passed"}

C16_Witness ==
    /\ gparams.built
    /\ gconfig = configuration
    /\ gtest.build = "passed"
    /\ Cardinality(gparams.phase_component_set) = 5

\* C17: with a pair listed in phases_in_equilibrium the parameter block has
\* one phase-equilibrium index per component present in both phases of the
\* pair, named PE1, PE2, ... in component order, and phase_equilibrium_list
\* maps each index to its component and the pair; a component valid in only
\* one of the phases gets none, so the test's configuration yields exactly
\* PE1 (benzene) and PE2 (toluene); without phases_in_equilibrium there is
\* no index.
C17_PhaseEquilibriumIndex ==
    gparams.built =>
        LET both == { j \in Range(ComponentNames) : BothPhases(j) }
            idx  == gparams.phase_equilibrium_idx
            pel  == gparams.phase_equilibrium_list
        IN  /\ DOMAIN pel = idx
            /\ gconfig.phases_in_equilibrium = <<>> => idx = {}
            /\ gconfig.phases_in_equilibrium # <<>> =>
                  /\ idx = { PEName(k) : k \in 1..Cardinality(both) }
                  /\ { pel[i].component : i \in idx } = both
                  /\ \A i \in idx : pel[i].phases = <<"Vap", "Liq">>
                  /\ \A k, l \in 1..Cardinality(both) :
                        k < l => PositionOf(pel[PEName(k)].component)
                                    < PositionOf(pel[PEName(l)].component)
            /\ gconfig = configuration =>
                  /\ idx = {"PE1", "PE2"}
                  /\ pel["PE1"].component = "benzene"
                  /\ pel["PE2"].component = "toluene"
                  /\ \A i \in idx : pel[i].component # "l_only"
                  /\ AssertPhaseEquilibrium(gparams)

C17_Witness ==
    /\ gparams.built
    /\ gconfig = configuration
    /\ gtest.build = "passed"
    /\ gparams.phase_equilibrium_idx = {"PE1", "PE2"}

C19_HeatExchangerDof ==
    unit.built =>
        LET inlets == InletStateVars(unit.package, "inlet_1")
                      \cup InletStateVars(unit.package, "inlet_2")
            base == inlets \cup {HXVar("", "area", ""),
                                 HXVar("", "overall_heat_transfer_coefficient", "")}
            factor == HXVar("", "crossflow_factor", "")
        IN  /\ base \subseteq unit.vars
            /\ factor \in unit.vars <=> unit.flow_pattern = "crossflow"
            /\ unit.flow_pattern \in {"cocurrent", "countercurrent"} =>
                  unit_degrees_of_freedom(unit, base) = 0
            /\ unit.flow_pattern = "crossflow" =>
                  /\ unit_degrees_of_freedom(unit, base) = 1
                  /\ unit_degrees_of_freedom(unit, base \cup {factor}) = 0
            /\ hx_test.dof # "notrun" =>
                  /\ unit.fixed = TestDofFixes(unit)
                  /\ unit_degrees_of_freedom(unit, unit.fixed) = 0
                  /\ hx_test.dof = "passed"

C19_Witness ==
    /\ unit.built
    /\ unit.package = "Saponification" /\ unit.flow_pattern = "crossflow"
    /\ hx_test.dof = "passed"
    /\ HXVar("", "crossflow_factor", "") \in unit.fixed
    /\ Cardinality(unit.vars) = 39 /\ unit.ncons = 20

C22_CrossflowFactorIffCrossflow ==
    unit.built =>
        /\ (HXVar("", "crossflow_factor", "") \in unit.vars)
              <=> unit.flow_pattern = "crossflow"
        /\ \A n \in {"area", "overall_heat_transfer_coefficient", "heat_duty",
                      "delta_temperature_in", "delta_temperature_out"} :
              HXVar("", n, "") \in unit.vars
        /\ {"unit_heat_balance", "heat_transfer_equation"} \subseteq unit.cons
        /\ hx_test.build # "notrun" => hx_test.build = "passed"

C22_Witness ==
    /\ unit.built
    /\ unit.package = "BTX" /\ unit.flow_pattern = "cocurrent"
    /\ hx_test.build = "passed"
    /\ HXVar("", "crossflow_factor", "") \notin unit.vars
    /\ HXVar("", "heat_duty", "") \in unit.vars

\* the default= dict with the two side names left out
DefaultNamed(d) == [d EXCEPT !.hot_side_name = Unset, !.cold_side_name = Unset]

\* C23: the side names only rename a built HeatExchanger: its variables,
\* constraints and unused variables are those of the unit built from the
\* same dict without the side names (50, 38 and 0 for the BTX package with
\* the names hot and cold); the ports are reachable as <hot>_inlet,
\* <hot>_outlet, <cold>_inlet and <cold>_outlet, each with the state
\* variables of the package; with the default names shell_inlet and
\* tube_inlet refer to the variables of inlet_1 and inlet_2; and fixing the
\* inlets through the side-named ports fixes the same variables as fixing
\* them through inlet_1 and inlet_2 and gives zero degrees of freedom.
C23_SideNamesOnlyRename ==
    unit.built =>
        LET hot == HotSideName(hx_default)
            cold == ColdSideName(hx_default)
            plain == BuiltUnit(DefaultNamed(hx_default))
        IN  /\ unit.vars = plain.vars
            /\ unit.ncons = plain.ncons
            /\ unit.cons = plain.cons
            /\ unit.unused = plain.unused
            /\ \A a \in {hot \o "_inlet", hot \o "_outlet",
                          cold \o "_inlet", cold \o "_outlet"} :
                  /\ a \in DOMAIN unit.ports
                  /\ { x.v : x \in PortVars(unit, a) }
                        = ExpectedPortMembers(unit.package)
            /\ PortVars(unit, hot \o "_inlet") = PortVars(unit, "inlet_1")
            /\ PortVars(unit, cold \o "_inlet") = PortVars(unit, "inlet_2")
            /\ (hot = "hot" /\ cold = "cold" /\ unit.package = "BTX"
                   /\ unit.flow_pattern = "cocurrent") =>
                  /\ {"hot_inlet", "hot_outlet", "cold_inlet", "cold_outlet"}
                        \subseteq DOMAIN unit.ports
                  /\ Cardinality({ x.v : x \in PortVars(unit, "hot_inlet") }) = 4
                  /\ Cardinality(unit.vars) = 50
                  /\ unit.ncons = 38
                  /\ unit.unused = {}
            /\ (hx_default.hot_side_name = Unset /\ hx_default.cold_side_name = Unset) =>
                  /\ unit.ports["shell_inlet"] = unit.ports["inlet_1"]
                  /\ unit.ports["tube_inlet"] = unit.ports["inlet_2"]
            /\ AltNameDofFixes(unit, hx_default) = TestDofFixes(unit)
            /\ hx_test.dof_alt # "notrun" =>
                  /\ unit.fixed = TestDofFixes(unit)
                  /\ hx_test.dof_alt = "passed"

C23_Witness ==
    /\ unit.built
    /\ hx_default.hot_side_name = "hot" /\ hx_default.cold_side_name = "cold"
    /\ unit.package = "BTX" /\ unit.flow_pattern = "cocurrent"
    /\ hx_test.build = "passed"
    /\ hx_test.dof_alt = "passed"
    /\ hx_test.dof = "notrun"
    /\ HXVar("inlet_2", "temperature", "") \in unit.fixed

\* the tester got past its first assertion (the degrees of freedom)
PastDof == Checked /\ pc # "L108"

\* C26: once the degrees of freedom are as expected, initialization_tester
\* returns exactly when the fixed variables and the activated constraints
\* after initialize are the sets recorded before it; the two checks (equal
\* length, every final element in the original set) hold together exactly
\* when the sets are equal; a final set of the same size with another
\* element (one variable fixed and another unfixed, one constraint swapped
\* for another) is rejected by the membership check at line 117 or 119, and
\* a final set that only lost elements by the length check at line 113 or 114.
C26_AcceptsExactlyEqualSets ==
    PastDof =>
        LET sameLenA == Cardinality(fin_act_consts) = Cardinality(orig_act_consts)
            sameLenF == Cardinality(fin_fixed_vars) = Cardinality(orig_fixed_vars)
        IN  /\ (outcome = "returned")
                  <=> (fin_act_consts = orig_act_consts
                       /\ fin_fixed_vars = orig_fixed_vars)
            /\ (AssertSameLength(fin_act_consts, orig_act_consts)
                 /\ AssertAllIn(fin_act_consts, orig_act_consts))
                  <=> fin_act_consts = orig_act_consts
            /\ (AssertSameLength(fin_fixed_vars, orig_fixed_vars)
                 /\ AssertAllIn(fin_fixed_vars, orig_fixed_vars))
                  <=> fin_fixed_vars = orig_fixed_vars
            /\ (sameLenA /\ sameLenF /\ fin_act_consts # orig_act_consts)
                  => (pc = "L117" /\ outcome = "AssertionError")
            /\ (fin_act_consts = orig_act_consts /\ sameLenF
                 /\ fin_fixed_vars # orig_fixed_vars)
                  => (pc = "L119" /\ outcome = "AssertionError")
            /\ (fin_act_consts \subseteq orig_act_consts
                 /\ fin_act_consts # orig_act_consts)
                  => (pc = "L113" /\ outcome = "AssertionError")
            /\ (sameLenA /\ fin_fixed_vars \subseteq orig_fixed_vars
                 /\ fin_fixed_vars # orig_fixed_vars)
                  => (pc = "L114" /\ outcome = "AssertionError")

C26_Witness ==
    /\ pc = "L119" /\ outcome = "AssertionError"
    /\ fin_act_consts = orig_act_consts
    /\ Cardinality(fin_fixed_vars) = Cardinality(orig_fixed_vars)
    /\ fin_fixed_vars # orig_fixed_vars
    /\ Cardinality(orig_fixed_vars \ fin_fixed_vars) = 1
    /\ Cardinality(fin_fixed_vars \ orig_fixed_vars) = 1

\* C27: when initialization_tester returns, the five dummy components are no
\* longer on m.fs.unit and the unit holds the components it held before the
\* call, so every call, a repeated one included, starts on a unit without
\* them; when an assertion fails or initialize raises, all five are still
\* on the unit.
C27_DummiesDeletedOnlyOnSuccess ==
    /\ outcome = "returned" =>
          /\ comps \cap DummyComps = {}
          /\ comps = ModelComps
    /\ outcome \in {"AssertionError", "InitError"} =>
          /\ DummyComps \subseteq comps
          /\ comps = ModelComps \cup DummyComps
    /\ pc = "call" => comps \cap DummyComps = {}

C27_Witness ==
    /\ pc = "return" /\ outcome = "returned"
    /\ comps = ModelComps
    /\ "__dummy_var" \notin comps
    /\ fin_act_consts # {} /\ fin_fixed_vars # {}

\* the position in trace of the latest initialize call (0 if there is none)
\* and the number of release_state calls made since
LastInit ==
    CHOOSE i \in 0..Len(trace) :
        /\ i > 0 => trace[i].op = "initialize"
        /\ \A n \in (i+1)..Len(trace) : trace[n].op # "initialize"
ReleasesSince == Len(trace) - LastInit

\* C28: after initialize(hold_state=h) every element of the indexed test
\* state block has init_test True and hold_state h; every release_state
\* call since, whatever its flags argument, negated hold_state on every
\* element: after one call it is not h (False after initialize(True), True
\* after initialize(False)) and after two it is h again.
C28_ReleaseStateNegates ==
    LastInit > 0 =>
        LET h == trace[LastInit].hold_state
        IN  /\ DOMAIN sblock = 1..NumBlocks
            /\ \A k \in DOMAIN sblock :
                  /\ sblock[k].init_test
                  /\ ReleasesSince = 0 => sblock[k].hold_state = h
                  /\ ReleasesSince = 1 => sblock[k].hold_state = ~ h
                  /\ ReleasesSince = 2 => sblock[k].hold_state = h
                  /\ sblock[k].hold_state = (IF ReleasesSince % 2 = 0 THEN h ELSE ~ h)
            /\ (h /\ ReleasesSince = 1) => \A k \in DOMAIN sblock : ~ sblock[k].hold_state
            /\ (~ h /\ ReleasesSince = 1) => \A k \in DOMAIN sblock : sblock[k].hold_state

C28_Witness ==
    /\ Len(trace) = 3
    /\ trace[1].op = "initialize" /\ ~ trace[1].hold_state
    /\ trace[2].op = "release_state" /\ trace[2].flags = "None"
    /\ trace[3].op = "release_state" /\ trace[3].flags = "flags"
    /\ \A k \in DOMAIN sblock : sblock[k].init_test /\ ~ sblock[k].hold_state

\* C29: get_material_flow_basis returns molar for basis_switch 1, mass for 2
\* and other for every other value; get_material_flow_terms and
\* get_material_density_terms carry kg/s and kg/m^3 exactly when
\* basis_switch is 2 and mol/s and mol/m^3 otherwise, so basis and units
\* agree for 1 and 2 while any other value gives basis other with molar
\* units; get_reaction_rate_basis maps the reaction parameter block's
\* basis_switch as get_material_flow_basis maps the physical one's.
C29_BasisFollowsSwitch ==
    LET sw == tparams.basis_switch
        rsw == tparams.reaction_basis_switch
        basis == get_material_flow_basis(tparams)
    IN  /\ ret.call = "get_material_flow_basis" =>
              /\ ret.value = basis
              /\ sw = 1 => ret.value = "MaterialFlowBasis.molar"
              /\ sw = 2 => ret.value = "MaterialFlowBasis.mass"
              /\ sw \notin {1, 2} => ret.value = "MaterialFlowBasis.other"
        /\ ret.call = "get_material_flow_terms" =>
              /\ ret.value = "kg/s" <=> sw = 2
              /\ ret.value = "mol/s" <=> sw # 2
              /\ sw = 1 => (basis = "MaterialFlowBasis.molar" /\ ret.value = "mol/s")
              /\ sw = 2 => (basis = "MaterialFlowBasis.mass" /\ ret.value = "kg/s")
              /\ sw \notin {1, 2} =>
                    (basis = "MaterialFlowBasis.other" /\ ret.value = "mol/s")
        /\ ret.call = "get_material_density_terms" =>
              /\ ret.value = "kg/m^3" <=> sw = 2
              /\ ret.value = "mol/m^3" <=> sw # 2
        /\ ret.call = "get_reaction_rate_basis" =>
              /\ rsw = 1 => ret.value = "MaterialFlowBasis.molar"
              /\ rsw = 2 => ret.value = "MaterialFlowBasis.mass"
              /\ rsw \notin {1, 2} => ret.value = "MaterialFlowBasis.other"
              /\ ret.value = get_material_flow_basis(
                                 [tparams EXCEPT !.basis_switch = rsw])

C29_Witness ==
    /\ ret.call = "get_material_flow_terms"
    /\ tparams.basis_switch = 3
    /\ ret.value = "mol/s"
    /\ get_material_flow_basis(tparams) = "MaterialFlowBasis.other"

BalanceCalls == {"default_material_balance_type", "default_energy_balance_type"}

\* C30: default_material_balance_type returns
\* MaterialBalanceType.componentPhase and default_energy_balance_type
\* returns EnergyBalanceType.enthalpyTotal when default_balance_switch is 1;
\* for every other value both raise NotImplementedError and return nothing;
\* neither call changes the switches or the state block.
C30_DefaultBalanceTypes ==
    /\ [](ret.call \in BalanceCalls =>
            IF tparams.default_balance_switch = 1
            THEN /\ ret.raised = "none"
                 /\ ret.call = "default_material_balance_type" =>
                       ret.value = "MaterialBalanceType.componentPhase"
                 /\ ret.call = "default_energy_balance_type" =>
                       ret.value = "EnergyBalanceType.enthalpyTotal"
            ELSE /\ ret.raised = "NotImplementedError"
                 /\ ret.value = "<nothing>")
    /\ [][(ret'.call \in BalanceCalls /\ ret' # ret) =>
            (tparams' = tparams /\ sblock' = sblock /\ trace' = trace)]_vars

C30_Witness ==
    /\ ret.call = "default_material_balance_type"
    /\ tparams.default_balance_switch = 2
    /\ ret.raised = "NotImplementedError"
    /\ ret.value = "<nothing>"
====
